---- MODULE Spec2Model ----
(***************************************************************************)
(* Workflow agent (src/main.py): the shared namespace GLOBAL_CONTEXT, the  *)
(* run_cell / run_all handlers that evaluate code fragments against it     *)
(* around the PetexServer resource, the variable-management endpoints, and *)
(* the InternalClient credential and request logic.                        *)
(*                                                                         *)
(* Text (str values, previews) is a sequence of one-character strings, so  *)
(* that str(), int() and slicing are computed and not assumed.             *)
(***************************************************************************)
EXTENDS Integers, Sequences, FiniteSets, TLC

VARIABLES
    ns,             \* GLOBAL_CONTEXT: binding name -> value
    petexOpen,      \* PetexServer contexts entered and not yet exited
    auth_token,     \* internal.auth_token
    refresh_token,  \* internal.refresh_token
    env,            \* process configuration fixed at import time
    op,             \* the request last handled
    resp,           \* the response last returned
    call,           \* trace of the last InternalClient._request call
    server,         \* what the upstream service holds and answers
    files,          \* WORKFLOW_AGENT_OUTPUT_DIR: workflow id -> lines of its file
    ret,            \* the last call of a library function and what it returned
    tasks           \* the requests in flight on the event loop, and the one running

vars == <<ns, petexOpen, auth_token, refresh_token, env, op, resp, call, server, files, ret,
          tasks>>

----------------------------------------------------------------------------
(* Bounds of the model *)

\* longest cell list of a run_all request
MaxCells == 2

\* most requests in flight at once
MaxRequests == 2

----------------------------------------------------------------------------
(* Text helpers *)

DigitChar == <<"0", "1", "2", "3", "4", "5", "6", "7", "8", "9">>

RECURSIVE Digits(_)
\* str(n) of a non-negative int
Digits(n) == IF n < 10 THEN <<DigitChar[n + 1]>>
             ELSE Digits(n \div 10) \o <<DigitChar[(n % 10) + 1]>>

IsDigit(c) == \E i \in 1..10 : DigitChar[i] = c

DigitVal(c) == (CHOOSE i \in 1..10 : DigitChar[i] = c) - 1

\* str.isdigit(): non-empty and every character a digit
IsDigits(s) == Len(s) > 0 /\ \A i \in 1..Len(s) : IsDigit(s[i])

RECURSIVE ParseNat(_)
ParseNat(s) == IF Len(s) = 0 THEN 0
               ELSE 10 * ParseNat(SubSeq(s, 1, Len(s) - 1)) + DigitVal(s[Len(s)])

\* s[:n]
Take(s, n) == IF Len(s) <= n THEN s ELSE SubSeq(s, 1, n)

\* a text of n opaque characters, standing for an object repr of that length
Opaque(n) == [i \in 1..n |-> "#"]

----------------------------------------------------------------------------
(* Values bound in the namespace *)

Val(t, n, s) == [t |-> t, n |-> n, s |-> s]

IntVal(n)  == Val("int", n, <<>>)
StrVal(s)  == Val("str", 0, s)
BoolVal(b) == Val("bool", IF b THEN 1 ELSE 0, <<>>)
FloatVal(n) == Val("float", n, <<>>)
NoneVal    == Val("NoneType", 0, <<>>)
ModuleVal  == Val("module", 0, <<>>)
ClassVal   == Val("type", 0, <<>>)
LambdaVal(w) == Val("function", w, <<>>)
HandleVal(h) == Val("PetexServer", h, <<>>)
BuiltinsVal == Val("dict", 0, <<>>)

\* "pi": types.SimpleNamespace(value=pi_value, series=pi_series)
PiVal == Val("SimpleNamespace", 0, <<>>)

\* "internal": the InternalClient instance
InternalVal == Val("InternalClient", 0, <<>>)

\* callable(v)
Callable(v) == v.t \in {"function", "type"}

\* isinstance(v, type)
IsType(v) == v.t = "type"

\* str(v); an object without __str__ prints its default repr, of which only
\* the length matters here: "<__main__.InternalClient object at 0x7f...>" is
\* 51 characters, "namespace(value=<function ...>, series=<function ...>)"
\* more than 80
Str(v) ==
    CASE v.t = "int"   -> Digits(v.n)
      [] v.t = "float" -> Digits(v.n) \o <<".", "0">>
      [] v.t = "str"   -> v.s
      [] v.t = "bool"  -> IF v.n = 1 THEN <<"T", "r", "u", "e">>
                                     ELSE <<"F", "a", "l", "s", "e">>
      [] v.t = "NoneType" -> <<"N", "o", "n", "e">>
      [] v.t = "InternalClient" -> Opaque(51)
      [] v.t = "SimpleNamespace" -> Opaque(130)
      [] v.t = "module" -> Opaque(40)
      [] v.t = "PetexServer" -> Opaque(58)
      [] v.t = "dict" -> Opaque(90)
      [] OTHER -> Opaque(40)

----------------------------------------------------------------------------
(* The namespace *)

Has(m, k) == k \in DOMAIN m

Put(m, k, v) == [x \in DOMAIN m \cup {k} |-> IF x = k THEN v ELSE m[x]]

\* dict.pop(k, None) / del m[k] on a present key
Drop(m, k) == [x \in DOMAIN m \ {k} |-> m[x]]

\* GLOBAL_CONTEXT as created at startup; gap, gap_tools, resolve and
\* PetexServer are None when the petex import failed
GlobalContext(e) ==
    [k \in {"gap", "gap_tools", "resolve", "PetexServer", "pi", "internal"} |->
        CASE k \in {"gap", "gap_tools", "resolve"} ->
                 IF e.petex THEN ModuleVal ELSE NoneVal
          [] k = "PetexServer" -> IF e.petex THEN ClassVal ELSE NoneVal
          [] k = "pi" -> PiVal
          [] k = "internal" -> InternalVal]

\* a key that is not a str: set_var stores under data.get("name"), which is
\* None when the body has no name
NoneKey == "<None>"

IsStrKey(k) == k # NoneKey

\* k.startswith("__"), for a str key
StartsWithDunder(k) == k \in {"__builtins__"}

----------------------------------------------------------------------------
(* Request credentials *)

UpperAlpha == <<"A", "B", "C", "D", "E", "F", "G", "H", "I", "J", "K", "L", "M",
                "N", "O", "P", "Q", "R", "S", "T", "U", "V", "W", "X", "Y", "Z">>
LowerAlpha == <<"a", "b", "c", "d", "e", "f", "g", "h", "i", "j", "k", "l", "m",
                "n", "o", "p", "q", "r", "s", "t", "u", "v", "w", "x", "y", "z">>

LowerChar(c) == IF \E i \in 1..26 : UpperAlpha[i] = c
                THEN LowerAlpha[CHOOSE i \in 1..26 : UpperAlpha[i] = c]
                ELSE c

\* s.lower()
Lower(s) == [i \in 1..Len(s) |-> LowerChar(s[i])]

\* s.startswith(p)
StartsWith(s, p) == Len(s) >= Len(p) /\ SubSeq(s, 1, Len(p)) = p

\* s.split(" ", 1)[1], for s holding a space
AfterFirstSpace(s) ==
    LET i == CHOOSE j \in 1..Len(s) :
                 s[j] = " " /\ \A h \in 1..(j - 1) : s[h] # " "
    IN  SubSeq(s, i + 1, Len(s))

RECURSIVE Strip(_)
\* s.strip()
Strip(s) == IF Len(s) = 0 THEN s
            ELSE IF s[1] = " " THEN Strip(Tail(s))
            ELSE IF s[Len(s)] = " " THEN Strip(SubSeq(s, 1, Len(s) - 1))
            ELSE s

BearerPrefix == <<"b", "e", "a", "r", "e", "r", " ">>

\* _apply_request_auth: the client's tokens after the request headers
\* h.auth (Authorization) and h.refresh (X-Refresh-Token) are applied; an
\* absent header is the empty text
_apply_request_auth(h, tok) ==
    IF Len(h.auth) = 0 THEN tok
    ELSE LET token == IF StartsWith(Lower(h.auth), BearerPrefix)
                      THEN Strip(AfterFirstSpace(h.auth))
                      ELSE <<>>
             a == IF Len(token) > 0 THEN token ELSE tok.auth
             r == IF Len(h.refresh) > 0 THEN h.refresh ELSE tok.refresh
         IN  [auth |-> a, refresh |-> r]

----------------------------------------------------------------------------
(* Exceptions *)

Exc(kind, msg) == [kind |-> kind, msg |-> msg]

NoExc == Exc("", "")

\* issubclass(kind, Exception): SystemExit, KeyboardInterrupt and
\* GeneratorExit derive from BaseException only
IsException(e) == e.kind \notin {"", "SystemExit", "KeyboardInterrupt", "GeneratorExit"}

----------------------------------------------------------------------------
(* Code fragments *)

Frag(k, name, n, m, exc, msg) ==
    [k |-> k, name |-> name, n |-> n, m |-> m, exc |-> exc, msg |-> msg]

FPass           == Frag("pass", "", 0, 0, "", "")          \* ""
FAssign(x, n, m) == Frag("assign", x, n, m, "", "")        \* x = n+m
FPrint(x)       == Frag("print", x, 0, 0, "", "")          \* print(x)
FRaise(e, msg)  == Frag("raise", "", 0, 0, e, msg)         \* raise e(msg)
FDel(x)         == Frag("del", x, 0, 0, "", "")            \* del x

NameErrorOf(x) == Exc("NameError", x)

\* exec(code, GLOBAL_CONTEXT) of one fragment: st.ns the namespace, st.out
\* the lines written to stdout, st.exc the exception raised. exec() puts
\* __builtins__ into the globals it is given before it runs the code.
ExecFragment(f, st) ==
    LET g == IF Has(st.ns, "__builtins__") THEN st.ns
             ELSE Put(st.ns, "__builtins__", BuiltinsVal)
    IN  CASE f.k = "assign" ->
                 [st EXCEPT !.ns = Put(g, f.name, IntVal(f.n + f.m))]
          [] f.k = "print" ->
                 IF Has(g, f.name)
                 THEN [st EXCEPT !.ns = g, !.out = Append(st.out, Str(g[f.name]))]
                 ELSE [st EXCEPT !.ns = g, !.exc = NameErrorOf(f.name)]
          [] f.k = "raise" ->
                 [st EXCEPT !.ns = g, !.exc = Exc(f.exc, f.msg)]
          [] f.k = "del" ->
                 IF Has(g, f.name)
                 THEN [st EXCEPT !.ns = Drop(g, f.name)]
                 ELSE [st EXCEPT !.ns = g, !.exc = NameErrorOf(f.name)]
          [] OTHER -> [st EXCEPT !.ns = g]

RECURSIVE ExecCellsIsolated(_, _, _)
\* each fragment evaluated against a copy of the namespace
ExecCellsIsolated(cells, i, st) ==
    IF i > Len(cells) \/ st.exc # NoExc THEN st
    ELSE ExecCellsIsolated(cells, i + 1,
                           [ExecFragment(cells[i], st) EXCEPT !.ran = st.ran + 1,
                                                              !.ns = st.ns])

RECURSIVE ExecCells(_, _, _)
\* for code in cells: exec(code, GLOBAL_CONTEXT), from cell i on; the first
\* exception ends the loop. st.ran counts the fragments evaluated.
ExecCells(cells, i, st) ==
    IF i > Len(cells) \/ st.exc # NoExc THEN st
    ELSE ExecCells(cells, i + 1,
                   [ExecFragment(cells[i], st) EXCEPT !.ran = st.ran + 1])

----------------------------------------------------------------------------
(* The PetexServer resource and the workflow helpers *)

\* the handle PetexServer().__enter__() returns; 0 stands for None
Handle == 1

\* entering _petex_server(enabled): ctor is what the PetexServer()
\* constructor does ("ok", or "raise" when the driver fails)
PetexEnter(enabled, e, ctor, open) ==
    IF ~enabled THEN [srv |-> 0, open |-> open, exc |-> NoExc]
    ELSE IF ~e.petex
         THEN [srv |-> 0, open |-> open,
               exc |-> Exc("RuntimeError", "Petex is unavailable")]
    ELSE IF ctor = "raise"
         THEN [srv |-> 0, open |-> open, exc |-> Exc("OSError", "driver")]
    ELSE [srv |-> Handle, open |-> open \cup {Handle}, exc |-> NoExc]

\* leaving the with block of _petex_server, normally or by an exception
PetexExit(open, srv) == open \ {srv}

\* bool(v) of a JSON value
Truthy(v) == CASE v.t = "NoneType" -> FALSE
               [] v.t = "str" -> Len(v.s) > 0
               [] OTHER -> v.n # 0

\* int(v) of a JSON int or str succeeds
IntOk(v) == v.t \in {"int", "bool", "float"} \/ (v.t = "str" /\ IsDigits(v.s))

IntOf(v) == IF v.t = "str" THEN ParseNat(v.s) ELSE v.n

\* lines 576-589 / 631-644: bind the workflow helpers when a workflow id
\* is given; int(workflow_component_id) is evaluated before the first
\* binding is made
BindWorkflow(wf, m) ==
    IF ~Truthy(wf) THEN [ns |-> m, exc |-> NoExc]
    ELSE IF ~IntOk(wf)
         THEN [ns |-> m, exc |-> Exc("ValueError", "invalid literal for int()")]
    ELSE [ns |-> Put(Put(Put(m, "workflow_component_id", IntVal(IntOf(wf))),
                         "workflow_load_inputs", LambdaVal(IntOf(wf))),
                     "workflow_save_output", LambdaVal(IntOf(wf))),
          exc |-> NoExc]

\* the body of the try statement of run_cell / run_all
RunTry(cells, q, m, e, open) ==
    LET en == PetexEnter(q.use_petex, e, q.ctor, open)
    IN  IF en.exc # NoExc
        THEN [ns |-> m, open |-> en.open, out |-> <<>>, exc |-> en.exc,
              ran |-> 0, acquired |-> FALSE]
        ELSE LET m1 == IF en.srv # 0 THEN Put(m, "srv", HandleVal(en.srv)) ELSE m
                 wf == BindWorkflow(q.wfid, m1)
                 st == ExecCells(cells, 1,
                                 [ns |-> wf.ns, out |-> <<>>, exc |-> wf.exc, ran |-> 0])
             IN  [ns |-> st.ns,
                  open |-> IF en.srv # 0 THEN PetexExit(en.open, en.srv) ELSE en.open,
                  out |-> st.out, exc |-> st.exc, ran |-> st.ran,
                  acquired |-> en.srv # 0]

\* except Exception: pass
CatchExceptionSilently(exc) == <<>>

\* except Exception as e: the line written to stderr_buf
CatchException(exc) == IF IsException(exc) THEN <<exc>> ELSE <<>>

\* a finally clause that leaves the binding in place
PopSrvKeeps(m) == m

\* finally: GLOBAL_CONTEXT.pop("srv", None)
PopSrv(m) == Drop(m, "srv")

----------------------------------------------------------------------------
(* Responses and snapshots *)

NoVars == [k \in {} |-> 0]

Resp(status, out, err, variables, error) ==
    [status |-> status, stdout |-> out, stderr |-> err,
     variables |-> variables, error |-> error]

NoResp == Resp(0, <<>>, <<>>, NoVars, "")

\* all_exceptions_handler, or the server's own 500 for what it does not handle
Fault(kind) == Resp(500, <<>>, <<>>, NoVars, kind)

\* the names left out of the snapshot of run_cell / run_all
RunHidden == {"gap", "resolve", "PetexServer", "srv"}

\* vars_snapshot of run_cell / run_all
RunSnapshot(m) ==
    [k \in {x \in DOMAIN m : /\ ~StartsWithDunder(x)
                             /\ ~Callable(m[x])
                             /\ ~IsType(m[x])
                             /\ x \notin RunHidden} |->
        [type |-> m[k].t, preview |-> Take(Str(m[k]), 60)]]

\* list_variables filtering as run_cell does
ListSnapshotAsRun(m) ==
    [k \in {x \in DOMAIN m : /\ ~StartsWithDunder(x)
                             /\ ~Callable(m[x])
                             /\ ~IsType(m[x])
                             /\ x \notin RunHidden} |->
        [type |-> m[k].t, preview |-> Take(Str(m[k]), 80)]]

\* the names list_variables leaves out
ListHidden == {"gap", "gap_tools", "resolve", "PetexServer", "srv"}

\* preview of list_variables
ListPreview(v) == IF Len(Str(v)) > 80
                  THEN Take(Str(v), 77) \o <<".", ".", ".">>
                  ELSE Str(v)

\* result of list_variables
ListSnapshot(m) ==
    [k \in {x \in DOMAIN m : ~(\/ StartsWithDunder(x)
                               \/ x \in ListHidden
                               \/ Callable(m[x])
                               \/ IsType(m[x]))} |->
        [type |-> m[k].t, preview |-> ListPreview(m[k])]]

\* k.startswith raises AttributeError on a key that is not a str
SnapshotRaises(m) == \E k \in DOMAIN m : ~IsStrKey(k)

\* run_cell / run_all after the request body is parsed: the namespace, the
\* resource, the client's tokens and the response they leave
RunHandle(cells, q, m, e, open, tok) ==
    LET t == RunTry(cells, q, m, e, open)
        err == CatchException(t.exc)
        m2 == PopSrv(t.ns)
        r  == IF t.exc # NoExc /\ ~IsException(t.exc) THEN Fault(t.exc.kind)
              ELSE IF SnapshotRaises(m2) THEN Fault("AttributeError")
              ELSE Resp(200, t.out, err, RunSnapshot(m2), "")
    IN  [ns |-> m2, open |-> t.open, tok |-> _apply_request_auth(q.hdrs, tok),
         resp |-> r, ran |-> t.ran, exc |-> t.exc, acquired |-> t.acquired]

----------------------------------------------------------------------------
(* Variable management *)

TrueTexts == {<<"1">>, <<"t", "r", "u", "e">>, <<"y", "e", "s">>}

\* the try block of set_var: value coerced to vtype, or the failure
Coerce(value, vtype) ==
    CASE vtype = "int" ->
             IF IntOk(value) THEN [ok |-> TRUE, v |-> IntVal(IntOf(value))]
             ELSE [ok |-> FALSE, v |-> NoneVal]
      [] vtype = "float" ->
             IF IntOk(value) THEN [ok |-> TRUE, v |-> FloatVal(IntOf(value))]
             ELSE [ok |-> FALSE, v |-> NoneVal]
      [] vtype = "bool" ->
             [ok |-> TRUE, v |-> BoolVal(Lower(Str(value)) \in TrueTexts)]
      [] OTHER -> [ok |-> TRUE, v |-> StrVal(Str(value))]

----------------------------------------------------------------------------
(* Requests *)

Query(use_petex, ctor, wfid, hdrs) ==
    [use_petex |-> use_petex, ctor |-> ctor, wfid |-> wfid, hdrs |-> hdrs]

Headers(auth, refresh) == [auth |-> auth, refresh |-> refresh]

NoHeaders == Headers(<<>>, <<>>)

NoQuery == Query(FALSE, "ok", NoneVal, NoHeaders)

\* the request last handled, with what its handler did: the fragments it
\* evaluated, the exception that ended its try block, whether it acquired
\* the resource, and whether the request before it was a reset_context
Op(name, cells, q, var, value, vtype, t, prev) ==
    [name |-> name, cells |-> cells, q |-> q, var |-> var, value |-> value,
     vtype |-> vtype, ran |-> t.ran, exc |-> t.exc, acquired |-> t.acquired,
     afterReset |-> prev.name = "reset_context"]

\* no call of internal._request made yet
NoUpstream == [refresh |-> <<>>, grant |-> [status |-> 0, token |-> <<>>], get |-> <<>>]

NoCall == [gets |-> 0, events |-> <<>>, exc |-> NoExc, auth0 |-> <<>>, refresh0 |-> <<>>,
           u |-> NoUpstream]

\* an upstream that lists nothing
NoServer == [comps |-> <<>>, types |-> <<>>, instances |-> <<>>, properties |-> <<>>,
             records |-> <<>>, history |-> <<>>]

\* an output directory without files
NoFiles == <<>>

\* no library call made yet
NoRet == [fn |-> "", args |-> <<>>, value |-> <<>>, exc |-> NoExc]

\* no request in flight
NoTasks == [running |-> 0, t |-> <<>>]

NoTry == [ran |-> 0, exc |-> NoExc, acquired |-> FALSE]

NoOp == [name |-> "", cells |-> <<>>, q |-> NoQuery, var |-> "", value |-> NoneVal,
         vtype |-> "", ran |-> 0, exc |-> NoExc, acquired |-> FALSE,
         afterReset |-> FALSE]

----------------------------------------------------------------------------
(* Handlers *)

\* POST /run_cell/
run_cell(code, q) ==
    LET r == RunHandle(<<code>>, q, ns, env, petexOpen,
                       [auth |-> auth_token, refresh |-> refresh_token])
    IN  /\ ns' = r.ns
        /\ petexOpen' = r.open
        /\ auth_token' = r.tok.auth
        /\ refresh_token' = r.tok.refresh
        /\ resp' = r.resp
        /\ op' = Op("run_cell", <<code>>, q, "", NoneVal, "", r, op)
        /\ UNCHANGED <<env, call, server, files, ret, tasks>>

\* POST /run_all/
run_all(cells, q) ==
    LET r == RunHandle(cells, q, ns, env, petexOpen,
                       [auth |-> auth_token, refresh |-> refresh_token])
    IN  /\ ns' = r.ns
        /\ petexOpen' = r.open
        /\ auth_token' = r.tok.auth
        /\ refresh_token' = r.tok.refresh
        /\ resp' = r.resp
        /\ op' = Op("run_all", cells, q, "", NoneVal, "", r, op)
        /\ UNCHANGED <<env, call, server, files, ret, tasks>>

\* GET /variables/
list_variables ==
    /\ resp' = IF SnapshotRaises(ns) THEN Fault("AttributeError")
               ELSE Resp(200, <<>>, <<>>, ListSnapshot(ns), "")
    /\ op' = Op("variables", <<>>, NoQuery, "", NoneVal, "", NoTry, op)
    /\ UNCHANGED <<ns, petexOpen, auth_token, refresh_token, env, call, server, files, ret, tasks>>

\* the dict literal reset_context() passes to update()
ResetBindings(e) ==
    [k \in {"gap", "gap_tools", "resolve", "PetexServer", "pi", "internal"} |->
        IF k = "pi" THEN PiVal
        ELSE IF k = "internal" THEN InternalVal
        ELSE IF ~e.petex THEN NoneVal
        ELSE IF k = "PetexServer" THEN ClassVal ELSE ModuleVal]

\* m.clear()
Clear(m) == [k \in {} |-> NoneVal]

\* m.update(d)
Update(m, d) == [k \in DOMAIN m \cup DOMAIN d |-> IF k \in DOMAIN d THEN d[k] ELSE m[k]]

\* reset_context without the clear()
reset_context_no_clear ==
    /\ ns' = Update(ns, ResetBindings(env))
    /\ resp' = Resp(200, <<>>, <<>>, NoVars, "")
    /\ op' = Op("reset_context", <<>>, NoQuery, "", NoneVal, "", NoTry, op)
    /\ UNCHANGED <<petexOpen, auth_token, refresh_token, env, call, server, files, ret, tasks>>

\* POST /reset_context/
reset_context ==
    /\ ns' = Update(Clear(ns), ResetBindings(env))
    /\ resp' = Resp(200, <<>>, <<>>, NoVars, "")
    /\ op' = Op("reset_context", <<>>, NoQuery, "", NoneVal, "", NoTry, op)
    /\ UNCHANGED <<petexOpen, auth_token, refresh_token, env, call, server, files, ret, tasks>>

\* POST /delete_var/ ; a missing name is None
delete_var(name) ==
    /\ ns' = IF name # NoneKey /\ name # "" /\ Has(ns, name)
             THEN Drop(ns, name) ELSE ns
    /\ resp' = Resp(200, <<>>, <<>>, NoVars, "")
    /\ op' = Op("delete_var", <<>>, NoQuery, name, NoneVal, "", NoTry, op)
    /\ UNCHANGED <<petexOpen, auth_token, refresh_token, env, call, server, files, ret, tasks>>

\* a set_var that binds the value as given when the coercion fails
set_var_binds_uncoerced(name, value, vtype) ==
    LET c == Coerce(value, vtype)
    IN  /\ ns' = IF c.ok THEN Put(ns, name, c.v) ELSE Put(ns, name, value)
        /\ resp' = IF c.ok THEN Resp(200, <<>>, <<>>, NoVars, "")
                   ELSE Resp(400, <<>>, <<>>, NoVars, "ValueError")
        /\ op' = Op("set_var", <<>>, NoQuery, name, value, vtype, NoTry, op)
        /\ UNCHANGED <<petexOpen, auth_token, refresh_token, env, call, server, files, ret, tasks>>

\* POST /set_var/ ; a missing name is None
set_var(name, value, vtype) ==
    LET c == Coerce(value, vtype)
    IN  /\ ns' = IF c.ok THEN Put(ns, name, c.v) ELSE ns
        /\ resp' = IF c.ok THEN Resp(200, <<>>, <<>>, NoVars, "")
                   ELSE Resp(400, <<>>, <<>>, NoVars, "ValueError")
        /\ op' = Op("set_var", <<>>, NoQuery, name, value, vtype, NoTry, op)
        /\ UNCHANGED <<petexOpen, auth_token, refresh_token, env, call, server, files, ret, tasks>>

----------------------------------------------------------------------------
(* The execution engine: inputs and specification *)

TokA == <<"t", "A">>
Tok0 == <<"t", "0">>

\* the fragments submitted: x = 1+1, print(x), del x,
\* raise ValueError('boom'), raise SystemExit('bye')
Frags == {FAssign("x", 1, 1), FPrint("x"), FDel("x"),
          FRaise("ValueError", "boom"), FRaise("SystemExit", "bye")}

CellLists == UNION {[1..k -> Frags] : k \in 0..MaxCells}

\* cell lists that end each way a request can: no fragment, one that
\* completes, one that raises an Exception, one that raises SystemExit
ShortLists == {<<>>, <<FAssign("x", 1, 1)>>, <<FRaise("ValueError", "boom")>>,
               <<FRaise("SystemExit", "bye")>>}

\* workflow_component_id of the body: absent, 7, "ab"
WorkflowIds == {NoneVal, IntVal(7), StrVal(<<"a", "b">>)}

PlainQuery == Query(FALSE, "ok", NoneVal, NoHeaders)

\* use_petex with either outcome of the constructor, and each workflow id
Queries == {Query(p[1], p[2], w, NoHeaders) :
                p \in {<<FALSE, "ok">>, <<TRUE, "ok">>, <<TRUE, "raise">>},
                w \in WorkflowIds}

RunAllInputs == {<<c, PlainQuery>> : c \in CellLists}
                \cup {<<c, q>> : c \in ShortLists, q \in Queries \ {PlainQuery}}

RunCellInputs == {<<f, q>> : f \in Frags \cup {FPass},
                             q \in {PlainQuery, Query(TRUE, "ok", NoneVal, NoHeaders)}}

\* set_var bodies: {name: x, value: "2", type: int}, a value that does not
\* coerce, and a body without a name
SetVarInputs == {<<"x", StrVal(<<"2">>), "int">>, <<"x", StrVal(<<"a", "b">>), "int">>,
                 <<NoneKey, StrVal(<<"2">>), "int">>}

DeleteVarInputs == {"x", "gap", NoneKey}

Init ==
    /\ env \in [petex : BOOLEAN, username : {<<>>}, password : {<<>>}]
    /\ ns = GlobalContext(env)
    /\ petexOpen = {}
    /\ auth_token = Tok0
    /\ refresh_token = <<>>
    /\ op = NoOp
    /\ resp = NoResp
    /\ call = NoCall
    /\ server = NoServer
    /\ files = NoFiles
    /\ ret = NoRet
    /\ tasks = NoTasks

Next ==
    \/ \E i \in RunCellInputs : run_cell(i[1], i[2])
    \/ \E i \in RunAllInputs : run_all(i[1], i[2])
    \/ list_variables
    \/ reset_context
    \/ \E n \in DeleteVarInputs : delete_var(n)
    \/ \E i \in SetVarInputs : set_var(i[1], i[2], i[3])

Spec == Init /\ [][Next]_vars

----------------------------------------------------------------------------
(* Properties of the execution engine *)

IsRun(o) == o.name \in {"run_cell", "run_all"}

WorkflowNames == {"workflow_component_id", "workflow_load_inputs", "workflow_save_output"}

\* the names the fragments a request evaluated assign or delete
FragWrites(o) == {o.cells[i].name : i \in {j \in 1..o.ran : o.cells[j].k \in {"assign", "del"}}}

\* the names a request overwrites or removes
Overwritten(o) ==
    CASE IsRun(o) -> FragWrites(o) \cup {"srv"}
                     \cup (IF Truthy(o.q.wfid) THEN WorkflowNames ELSE {})
      [] o.name \in {"set_var", "delete_var"} -> {o.var}
      [] OTHER -> {}

\* C1: a run_cell / run_all request with use_petex that acquired the
\* resource has released it and left 'srv' unbound when it returns, on every
\* exit path (fragments complete, a fragment raises, the workflow helpers
\* fail to bind), and every binding it did not itself write persists.
C1_ReleasedOnEveryExit ==
    [][(IsRun(op') /\ op'.q.use_petex /\ op'.acquired) =>
          /\ petexOpen' = {}
          /\ ~Has(ns', "srv")
          /\ \A k \in DOMAIN ns \ Overwritten(op') : Has(ns', k) /\ ns'[k] = ns[k]]_vars

\* the resource was held while a fragment raised
C1_Witness == IsRun(op) /\ op.q.use_petex /\ op.acquired /\ op.ran >= 1 /\ op.exc # NoExc

\* a fragment of the request raised
FragmentRaised(o) == IsRun(o) /\ o.ran >= 1 /\ o.exc # NoExc

\* the print fragments among the first n cells
PrintsIn(cells, n) == {i \in 1..n : cells[i].k = "print"}

\* C2: when fragment i raises, fragments i+1.. are not evaluated, the
\* response is a success at transport level, stderr holds the line
\* '<ExceptionKind>: <message>' and stdout what fragments 1..i printed.
C2_FragmentErrorIsCaptured ==
    FragmentRaised(op) =>
        /\ resp.status = 200
        /\ resp.stderr = <<op.exc>>
        /\ Len(resp.stdout) = Cardinality(PrintsIn(op.cells, op.ran - 1))

\* use_petex was asked for and the resource could not be constructed
AcquisitionFailed(o) == IsRun(o) /\ o.q.use_petex /\ ~o.acquired

ReservedNames == {"gap", "gap_tools", "resolve", "PetexServer", "pi", "internal", "srv",
                  "workflow_load_inputs", "workflow_save_output"}

\* the request is the single fragment x = 1+1, without resource or workflow
\* id, on a namespace that held only the reserved bindings
IsFirstCell(o) == /\ o.name = "run_cell"
                  /\ o.cells = <<FAssign("x", 1, 1)>>
                  /\ o.q = PlainQuery
                  /\ DOMAIN ns = DOMAIN GlobalContext(env) \cup {"x", "__builtins__"}

\* C4: the variables snapshot of run_cell / run_all / variables holds no
\* reserved binding, no name starting with '__', no callable and no type;
\* x = 1+1 on the reserved namespace alone returns {x: {int, "2"}}.
C4_SnapshotIsUserData ==
    (op.name \in {"run_cell", "run_all", "variables"} /\ resp.status = 200) =>
        /\ \A k \in DOMAIN resp.variables :
              /\ k \notin ReservedNames
              /\ ~StartsWithDunder(k)
              /\ ~Callable(ns[k])
              /\ ~IsType(ns[k])
        /\ IsFirstCell(op) =>
              /\ resp.variables = [k \in {"x"} |-> [type |-> "int", preview |-> <<"2">>]]
              /\ resp.stdout = <<>>
              /\ resp.stderr = <<>>

\* the names a request deletes
Deleted(o) ==
    CASE IsRun(o) -> {o.cells[i].name : i \in {j \in 1..o.ran : o.cells[j].k = "del"}}
                     \cup {"srv"}
      [] o.name = "delete_var" -> {o.var}
      [] OTHER -> {}

\* C5: reset_context leaves the namespace equal to the bindings created at
\* startup and nothing else, whatever preceded it; no other request drops a
\* binding it was not asked to delete.
C5_ResetRestoresStartup ==
    [][/\ op'.name = "reset_context" => ns' = GlobalContext(env)
       /\ op'.name # "reset_context" => (DOMAIN ns \ DOMAIN ns') \subseteq Deleted(op')]_vars

\* a reset has just been handled
C5_Witness == op.name = "reset_context" /\ ns = GlobalContext(env) /\ ~op.afterReset

\* GET /variables/ right after POST /reset_context/
ListAfterReset(o) == o.name = "variables" /\ o.afterReset

LastWrite(cells, j, x) ==
    LET w == {i \in 1..(j - 1) : cells[i].name = x /\ cells[i].k \in {"assign", "del"}}
    IN  IF w = {} THEN 0 ELSE CHOOSE i \in w : \A h \in w : h <= i

\* what x is bound to when cell j runs: [bound, v]
BoundAt(cells, j, x, m) ==
    LET i == LastWrite(cells, j, x)
    IN  IF i = 0 THEN [bound |-> Has(m, x), v |-> IF Has(m, x) THEN m[x] ELSE NoneVal]
        ELSE IF cells[i].k = "del" THEN [bound |-> FALSE, v |-> NoneVal]
        ELSE [bound |-> TRUE, v |-> IntVal(cells[i].n + cells[i].m)]

\* the cells of a request that ran to their end
Completed(o) == IF o.exc = NoExc THEN 1..o.ran ELSE 1..(o.ran - 1)

\* C7: fragments run in order against the one namespace, which is not reset
\* between fragments or requests: a binding keeps its value until a
\* fragment or set_var overwrites it, del / delete_var removes it, or the
\* namespace is reset; print(x) shows the value the latest earlier write left.
C7_BindingsPersist ==
    [][op'.name # "reset_context" =>
          /\ \A k \in DOMAIN ns \ Overwritten(op') : Has(ns', k) /\ ns'[k] = ns[k]
          /\ IsRun(op') =>
                /\ \A x \in FragWrites(op') :
                      LET b == BoundAt(op'.cells, op'.ran + 1, x, ns)
                      IN  Has(ns', x) = b.bound /\ (b.bound => ns'[x] = b.v)
                /\ resp'.status = 200 =>
                      \A j \in PrintsIn(op'.cells, op'.ran) \cap Completed(op') :
                          resp'.stdout[Cardinality(PrintsIn(op'.cells, j))]
                              = Str(BoundAt(op'.cells, j, op'.cells[j].name, ns).v)]_vars

\* print(x) as the first fragment of a request shows the binding an earlier
\* request made
C7_Witness == /\ IsRun(op)
              /\ op.cells # <<>>
              /\ op.cells[1] = FPrint("x")
              /\ resp.stdout # <<>>
              /\ resp.stdout[1] = <<"2">>

\* C23: a run_cell / run_all request that supplies no workflow id starts
\* with a namespace in which workflow_component_id, workflow_load_inputs and
\* workflow_save_output are unbound, as 'srv' is, whatever requests were
\* handled before it
C23_WorkflowHelpersScopedToRequest ==
    [][(IsRun(op') /\ ~Truthy(op'.q.wfid)) =>
           \A n \in WorkflowNames \cup {"srv"} : ~Has(ns, n)]_vars

\* C25: after any sequence of requests every key of the namespace is a str,
\* GET /variables/ answers 200, and a run_cell / run_all whose fragments
\* completed or raised an Exception answers 200 with its snapshot
C25_KeysAreStringsAndListingCompletes ==
    /\ \A k \in DOMAIN ns : IsStrKey(k)
    /\ op.name = "variables" => resp.status = 200
    /\ (IsRun(op) /\ (op.exc = NoExc \/ IsException(op.exc))) => resp.status = 200

----------------------------------------------------------------------------
(* Request credentials: inputs and specification *)

TokB == <<"t", "B">>
RefA == <<"r", "A">>
RefB == <<"r", "B">>

BearerTokA == <<"B", "e", "a", "r", "e", "r", " ">> \o TokA
LowerBearerTokB == <<"b", "e", "a", "r", "e", "r", " ">> \o TokB
BasicZz == <<"B", "a", "s", "i", "c", " ", "z", "z">>

\* Authorization and X-Refresh-Token headers of a request, each possibly absent
AuthQueries == {Query(FALSE, "ok", NoneVal, Headers(a, r)) :
                    a \in {<<>>, BearerTokA, LowerBearerTokB, BasicZz},
                    r \in {<<>>, RefA, RefB}}

NextAuth ==
    \/ \E q \in AuthQueries : run_cell(FPass, q)
    \/ \E q \in AuthQueries, c \in {<<>>, <<FRaise("ValueError", "boom")>>} : run_all(c, q)

SpecAuth == Init /\ [][NextAuth]_vars

\* the token an Authorization header carries as 'Bearer t'
BearerOf(a) == IF a = BearerTokA THEN TokA
               ELSE IF a = LowerBearerTokB THEN TokB
               ELSE <<>>

\* C8: every credential header present in a run_cell / run_all request has
\* taken effect when the request returns: 'Authorization: Bearer t' has set
\* the access token to t and 'X-Refresh-Token: r' the refresh token to r,
\* each whether or not the other header is present.
C8_HeadersTakeEffect ==
    IsRun(op) =>
        /\ BearerOf(op.q.hdrs.auth) # <<>> => auth_token = BearerOf(op.q.hdrs.auth)
        /\ op.q.hdrs.refresh # <<>> => refresh_token = op.q.hdrs.refresh

----------------------------------------------------------------------------
(* InternalClient: credential lifecycle and the request wrapper *)

(* A call is threaded through a record s: s.auth and s.refresh are the        *)
(* client's tokens, s.events the HTTP calls made so far, in order.  The       *)
(* upstream u fixes what each call is answered: u.refresh[i] answers the i-th *)
(* refresh POST of the call, u.grant the password-grant POST, u.get[i] the    *)
(* i-th GET.                                                                  *)

RefreshEvent(ok) == [e |-> "refresh", status |-> IF ok THEN 200 ELSE 0, bearer |-> <<>>]
GrantEvent(status) == [e |-> "grant", status |-> status, bearer |-> <<>>]
GetEvent(status, bearer) == [e |-> "get", status |-> status, bearer |-> bearer]

EventsOf(s, kind) == {i \in 1..Len(s.events) : s.events[i].e = kind}

\* data.get("access") or data.get("token") of a 200 response; empty when the
\* body carries neither
TokenIn(r) == IF r.status = 200 THEN r.token ELSE <<>>

\* InternalClient._refresh_token: [s, ok]
_refresh_token(s, u) ==
    IF Len(s.refresh) = 0 THEN [s |-> s, ok |-> FALSE]
    ELSE LET r  == u.refresh[Cardinality(EventsOf(s, "refresh")) + 1]
             ok == r.status = 200 /\ Len(TokenIn(r)) > 0
             s1 == [s EXCEPT !.events = Append(s.events, RefreshEvent(ok))]
         IN  IF ok THEN [s |-> [s1 EXCEPT !.auth = TokenIn(r)], ok |-> TRUE]
             ELSE [s |-> s1, ok |-> FALSE]

\* the password grant of _ensure_token, reached when the refresh rr gave no
\* token: [s, exc]
PasswordGrant(rr, u, e) ==
    IF rr.ok THEN [s |-> rr.s, exc |-> NoExc]
    ELSE IF Len(e.username) = 0 \/ Len(e.password) = 0
         THEN [s |-> rr.s, exc |-> NoExc]
    ELSE LET ev == Append(rr.s.events, GrantEvent(u.grant.status))
         IN  IF u.grant.status # 200
             THEN [s |-> [rr.s EXCEPT !.events = ev],
                   exc |-> Exc("RuntimeError", "Auth token request failed")]
             ELSE IF Len(TokenIn(u.grant)) = 0
             THEN [s |-> [rr.s EXCEPT !.events = ev],
                   exc |-> Exc("RuntimeError", "Auth token missing in response")]
             ELSE [s |-> [rr.s EXCEPT !.events = ev, !.auth = TokenIn(u.grant)],
                   exc |-> NoExc]

\* an _ensure_token that asks for a token even when it holds one
_ensure_token_ignores_held(s, u, e) ==
    IF Len(s.refresh) > 0 THEN PasswordGrant(_refresh_token(s, u), u, e)
    ELSE PasswordGrant([s |-> s, ok |-> FALSE], u, e)

\* InternalClient._ensure_token: [s, exc]
_ensure_token(s, u, e) ==
    IF Len(s.auth) > 0 THEN [s |-> s, exc |-> NoExc]
    ELSE IF Len(s.refresh) > 0 THEN PasswordGrant(_refresh_token(s, u), u, e)
    ELSE PasswordGrant([s |-> s, ok |-> FALSE], u, e)

\* the header built from the outcome t of _ensure_token, sending whatever
\* token is held
BearerUnchecked(t) ==
    IF t.exc # NoExc THEN [s |-> t.s, exc |-> t.exc, bearer |-> <<>>]
    ELSE [s |-> t.s, exc |-> NoExc, bearer |-> t.s.auth]

\* _headers that sends whatever token is held
_headers_unchecked(s, u, e) == BearerUnchecked(_ensure_token(s, u, e))

\* the header built from the outcome t of _ensure_token: [s, exc, bearer]
Bearer(t) ==
    IF t.exc # NoExc THEN [s |-> t.s, exc |-> t.exc, bearer |-> <<>>]
    ELSE IF Len(t.s.auth) = 0
         THEN [s |-> t.s, exc |-> Exc("RuntimeError", "Missing auth token"), bearer |-> <<>>]
    ELSE [s |-> t.s, exc |-> NoExc, bearer |-> t.s.auth]

\* InternalClient._headers: [s, exc, bearer]
_headers(s, u, e) == Bearer(_ensure_token(s, u, e))

\* requests.get with the headers h, answered status: [s, exc, status]
SendGet(h, status) ==
    IF h.exc # NoExc THEN [s |-> h.s, exc |-> h.exc, status |-> 0]
    ELSE [s |-> [h.s EXCEPT !.events = Append(h.s.events, GetEvent(status, h.bearer))],
          exc |-> NoExc, status |-> status]

\* requests.get(url, headers=self._headers(), ...), the i-th of the call:
\* [s, exc, status]
ClientGet(s, u, e, i) == SendGet(_headers(s, u, e), u.get[i])

\* the outcome of a call whose last GET was answered g
ClientResult(g) ==
    IF g.exc # NoExc THEN [s |-> g.s, exc |-> g.exc]
    ELSE IF g.status # 200 THEN [s |-> g.s, exc |-> Exc("RuntimeError", "Internal API failed")]
    ELSE [s |-> g.s, exc |-> NoExc]

\* the second GET, sent whether or not the refresh rr gave a token
RetryAlways(rr, u, e) == ClientResult(ClientGet(rr.s, u, e, 2))

\* what follows a first GET g1: every 401 is retried
On401Always(g1, u, e) ==
    IF g1.exc = NoExc /\ g1.status = 401
    THEN RetryAlways(_refresh_token(g1.s, u), u, e)
    ELSE ClientResult(g1)

\* _request retrying every 401, refreshed or not
_request_retries_always(s, u, e) == On401Always(ClientGet(s, u, e, 1), u, e)

\* the second GET, sent only when the refresh rr gave a token
Retry(rr, g1, u, e) ==
    IF rr.ok THEN ClientResult(ClientGet(rr.s, u, e, 2))
    ELSE ClientResult([g1 EXCEPT !.s = rr.s])

\* what follows a first GET g1: a 401 is answered by one refresh
On401(g1, u, e) ==
    IF g1.exc = NoExc /\ g1.status = 401
    THEN Retry(_refresh_token(g1.s, u), g1, u, e)
    ELSE ClientResult(g1)

\* InternalClient._request: [s, exc]
_request(s, u, e) == On401(ClientGet(s, u, e, 1), u, e)

\* a call of internal._request, answered by the upstream as u says; r is what
\* the call returned
CallRequest(u) ==
    \E r \in {_request([auth |-> auth_token, refresh |-> refresh_token, events |-> <<>>],
                       u, env)} :
        /\ auth_token' = r.s.auth
        /\ refresh_token' = r.s.refresh
        /\ call' = [gets |-> Cardinality(EventsOf(r.s, "get")), events |-> r.s.events,
                    exc |-> r.exc, auth0 |-> auth_token, refresh0 |-> refresh_token, u |-> u]
        /\ UNCHANGED <<ns, petexOpen, env, op, resp, server, files, ret, tasks>>

----------------------------------------------------------------------------
(* InternalClient: inputs and specification *)

TokR == <<"t", "R">>
TokG == <<"t", "G">>

\* answers to a token POST: a token, a 200 without a token, a refusal
TokenAnswers(t) == {[status |-> 200, token |-> t], [status |-> 200, token |-> <<>>],
                    [status |-> 401, token |-> <<>>]}

GetAnswers == {200, 401, 500}

Upstreams == [refresh : [1..2 -> TokenAnswers(TokR)], grant : TokenAnswers(TokG),
              get : [1..2 -> GetAnswers]]

\* the client as constructed from the environment: with or without a static
\* bearer token, a refresh token, a username and a password
InitClient ==
    /\ env \in [petex : {FALSE}, username : {<<>>, <<"u">>}, password : {<<>>, <<"p">>}]
    /\ ns = GlobalContext(env)
    /\ petexOpen = {}
    /\ auth_token \in {<<>>, Tok0}
    /\ refresh_token \in {<<>>, RefA}
    /\ op = NoOp
    /\ resp = NoResp
    /\ call = NoCall
    /\ server = NoServer
    /\ files = NoFiles
    /\ ret = NoRet
    /\ tasks = NoTasks

NextClient == \E u \in Upstreams : CallRequest(u)

SpecClient == InitClient /\ [][NextClient]_vars

----------------------------------------------------------------------------
(* Properties of the InternalClient *)

IsGet(ev) == ev.e = "get"
IsRefresh(ev) == ev.e = "refresh"
IsGrant(ev) == ev.e = "grant"

\* the GETs of the last call, in order
GetsOf(c) == SelectSeq(c.events, IsGet)

\* the HTTP calls the last call made after its first GET
AfterFirstGet(c) ==
    LET i == CHOOSE j \in 1..Len(c.events) :
                 IsGet(c.events[j]) /\ \A h \in 1..(j - 1) : ~IsGet(c.events[h])
    IN  SubSeq(c.events, i + 1, Len(c.events))

ApiFailed == Exc("RuntimeError", "Internal API failed")

\* C9: within one _request call a 401 is answered by one refresh (a POST
\* when a refresh token is held) and, when that refresh succeeds, by one
\* retry of the GET: refresh and retry both succeeding make the call succeed
\* with the refreshed token stored; a retry that fails ends the call; any
\* other non-success status fails at once; no call issues more than two GETs.
C9_OneRefreshAndRetry ==
    LET g == GetsOf(call)
    IN  /\ Len(g) <= 2
        /\ Len(g) >= 1 =>
              LET rest == AfterFirstGet(call)
                  posts == SelectSeq(rest, IsRefresh)
              IN  CASE g[1].status = 401 ->
                           /\ Len(posts) = (IF Len(refresh_token) > 0 THEN 1 ELSE 0)
                           /\ SelectSeq(rest, IsGrant) = <<>>
                           /\ Len(g) = 2 <=> (Len(posts) = 1 /\ posts[1].status = 200)
                           /\ Len(g) = 2 =>
                                 /\ rest = <<posts[1], g[2]>>
                                 /\ g[2].bearer = call.u.refresh[Len(SelectSeq(call.events, IsRefresh))].token
                                 /\ auth_token = g[2].bearer
                                 /\ g[2].status = 200 => call.exc = NoExc
                                 /\ g[2].status # 200 => call.exc = ApiFailed
                           /\ Len(g) = 1 => call.exc = ApiFailed
                    [] g[1].status = 200 -> rest = <<>> /\ call.exc = NoExc
                    [] OTHER -> rest = <<>> /\ call.exc = ApiFailed

\* a 401, a successful refresh and a successful retry: one successful call,
\* the stored token replaced by the refreshed one
C9_Witness ==
    /\ Len(GetsOf(call)) = 2
    /\ GetsOf(call)[1].status = 401
    /\ GetsOf(call)[1].bearer = Tok0
    /\ GetsOf(call)[2].status = 200
    /\ call.exc = NoExc
    /\ auth_token = TokR

\* a call was made with no access token held and left none
StillNoToken(c) == c.u # NoUpstream /\ c.auth0 = <<>> /\ auth_token = <<>>

----------------------------------------------------------------------------
(* InternalClient: reference resolution.  A reference is a Python value:   *)
(* None, an int, a str, a dict with the keys "id", the kind's foreign key  *)
(* and "name" (an absent key is None here), or an object with a pk.  The   *)
(* argument of a resolver is None, one reference, or a list of them.  The  *)
(* upstream answers every GET of this section with status 200.             *)

Ref(t, n, s, id, fk, name) == [t |-> t, n |-> n, s |-> s, id |-> id, fk |-> fk, name |-> name]

RefOf(v)   == Ref(v.t, v.n, v.s, NoneVal, NoneVal, NoneVal)
RNone      == RefOf(NoneVal)
RInt(n)    == RefOf(IntVal(n))
RStr(s)    == RefOf(StrVal(s))
RDict(id, fk, name) == Ref("dict", 0, <<>>, id, fk, name)
RObj(pk)   == Ref("obj", 0, <<>>, pk, NoneVal, NoneVal)

ArgNone      == [shape |-> "none", items |-> <<>>]
ArgOne(r)    == [shape |-> "one", items |-> <<r>>]
ArgList(rs)  == [shape |-> "list", items |-> rs]

Kinds == {"component", "type", "instance", "property"}

\* the key of a dict reference that carries the kind's foreign key
FkKey(kind) ==
    CASE kind = "component" ->
             <<"c","o","m","p","o","n","e","n","t","_","i","d">>
      [] kind = "type" ->
             <<"o","b","j","e","c","t","_","t","y","p","e","_","i","d">>
      [] kind = "instance" ->
             <<"o","b","j","e","c","t","_","i","n","s","t","a","n","c","e","_","i","d">>
      [] OTHER ->
             <<"o","b","j","e","c","t","_","t","y","p","e","_","p","r","o","p","e","r",
               "t","y","_","i","d">>

\* the scalar a reference stands for, as a value
ValOf(r) == Val(r.t, r.n, r.s)

\* bool(x) of a reference
RefTruthy(r) ==
    CASE r.t = "dict" -> \E v \in {r.id, r.fk, r.name} : v # NoneVal
      [] r.t = "obj" -> TRUE
      [] OTHER -> Truthy(ValOf(r))

\* bool(arg) of a resolver argument
ArgTruthy(a) ==
    CASE a.shape = "none" -> FALSE
      [] a.shape = "one" -> RefTruthy(a.items[1])
      [] OTHER -> Len(a.items) > 0

\* the entities of one kind in the order the resolver walks them
Listing(srv, kind) ==
    CASE kind = "component" -> srv.comps
      [] kind = "type" -> srv.types
      [] kind = "instance" -> srv.instances
      [] OTHER -> srv.properties

ListedIds(srv, kind) == {Listing(srv, kind)[i].id : i \in DOMAIN Listing(srv, kind)}

\* by_name.get(text): the dict comprehension keeps the last entity of a
\* lower-cased name; 0 stands for None
ByName(list, text) ==
    LET hits == {i \in DOMAIN list : Lower(list[i].name) = text}
    IN  IF hits = {} THEN 0
        ELSE list[CHOOSE i \in hits : \A j \in hits : j <= i].id

\* int(v) inside a resolver: [ids, exc]
IntId(v) ==
    IF IntOk(v) THEN [ids |-> <<IntOf(v)>>, exc |-> NoExc]
    ELSE [ids |-> <<>>, exc |-> Exc("ValueError", "invalid literal for int()")]

\* a name looked up in by_name: the id when one is found and truthy
NameId(list, text) ==
    [ids |-> SelectSeq(<<ByName(list, Lower(text))>>, LAMBDA v : v # 0), exc |-> NoExc]

\* one pass of the loop body shared by the four resolvers: the ids the item
\* adds, or the exception it raises
ResolveItem(item, list) ==
    CASE item.t = "NoneType" -> [ids |-> <<>>, exc |-> NoExc]
      [] item.t = "dict" ->
             IF item.id # NoneVal THEN IntId(item.id)
             ELSE IF item.fk # NoneVal THEN IntId(item.fk)
             ELSE IF Truthy(item.name) THEN NameId(list, Str(item.name))
             ELSE [ids |-> <<>>, exc |-> NoExc]
      [] item.t = "obj" -> IntId(item.id)
      [] item.t \in {"int", "bool"} -> [ids |-> <<item.n>>, exc |-> NoExc]
      [] item.t = "str" ->
             IF IsDigits(item.s) THEN [ids |-> <<ParseNat(item.s)>>, exc |-> NoExc]
             ELSE NameId(list, item.s)
      [] OTHER -> [ids |-> <<>>, exc |-> NoExc]

RECURSIVE ResolveLoop(_, _, _, _)
\* the loop after its i-th item gave r
ResolveStep(items, i, list, acc, r) ==
    IF r.exc # NoExc THEN [ids |-> acc, exc |-> r.exc]
    ELSE ResolveLoop(items, i + 1, list, acc \o r.ids)

\* for item in items: ...; acc the ids appended so far
ResolveLoop(items, i, list, acc) ==
    IF i > Len(items) THEN [ids |-> acc, exc |-> NoExc]
    ELSE ResolveStep(items, i, list, acc, ResolveItem(items[i], list))

\* the items that `for item in x` walks when x is the argument itself and
\* not a list made of it: a str yields its characters, a dict its keys, and
\* an int or a plain object is not iterable
Iterate(a, kind) ==
    LET r == a.items[1]
    IN  CASE a.shape = "list" -> [items |-> a.items, exc |-> NoExc]
          [] a.shape = "one" /\ r.t = "str" ->
                 [items |-> [i \in 1..Len(r.s) |-> RStr(<<r.s[i]>>)], exc |-> NoExc]
          [] a.shape = "one" /\ r.t = "dict" ->
                 [items |-> (IF r.id # NoneVal THEN <<RStr(<<"i", "d">>)>> ELSE <<>>)
                            \o (IF r.fk # NoneVal THEN <<RStr(FkKey(kind))>> ELSE <<>>)
                            \o (IF r.name # NoneVal THEN <<RStr(<<"n", "a", "m", "e">>)>>
                                ELSE <<>>),
                  exc |-> NoExc]
          [] OTHER -> [items |-> <<>>, exc |-> Exc("TypeError", "object is not iterable")]

\* items = x if isinstance(x, (list, tuple, set)) else [x]
Wrapped(a) == [items |-> a.items, exc |-> NoExc]

SeqToSet(q) == {q[i] : i \in DOMAIN q}

RECURSIVE Sorted(_)
\* sorted(S) of a set of ints
Sorted(S) ==
    IF S = {} THEN <<>>
    ELSE LET m == CHOOSE x \in S : \A y \in S : x <= y
         IN  <<m>> \o Sorted(S \ {m})

\* the ids a loop appended, as the set the resolver returns
AsSet(r) == [ids |-> SeqToSet(r.ids), exc |-> r.exc]

\* the loop of a resolver over the items it walks, as a set of ids
ResolveSet(it, list) ==
    IF it.exc # NoExc THEN [ids |-> {}, exc |-> it.exc]
    ELSE AsSet(ResolveLoop(it.items, 1, list, <<>>))

\* the ids a resolved set keeps: those the listing holds
KeepListed(r, srv) ==
    [ids |-> Sorted(r.ids \cap ListedIds(srv, "component")), exc |-> r.exc]

\* InternalClient._resolve_component_ids: [ids, exc], ids a list
_resolve_component_ids(srv, a) ==
    IF ~ArgTruthy(a)
    THEN [ids |-> SelectSeq([i \in DOMAIN srv.comps |-> srv.comps[i].id], LAMBDA x : x # 0),
          exc |-> NoExc]
    ELSE KeepListed(ResolveSet(Iterate(a, "component"), srv.comps), srv)

\* InternalClient._resolve_type_ids: [ids, exc], ids a set
_resolve_type_ids(srv, a) ==
    IF a.shape = "none" THEN [ids |-> {}, exc |-> NoExc]
    ELSE ResolveSet(Wrapped(a), srv.types)

\* InternalClient._resolve_instance_ids: [ids, exc], ids a set
_resolve_instance_ids(srv, a) ==
    IF ~ArgTruthy(a) THEN [ids |-> {}, exc |-> NoExc]
    ELSE ResolveSet(Iterate(a, "instance"), srv.instances)

\* InternalClient._resolve_property_ids: [ids, exc], ids a set
_resolve_property_ids(srv, a) ==
    IF ~ArgTruthy(a) THEN [ids |-> {}, exc |-> NoExc]
    ELSE ResolveSet(Iterate(a, "property"), srv.properties)

\* the resolver of a kind, its ids as a set
ResolveKind(srv, kind, a) ==
    CASE kind = "component" -> AsSet(_resolve_component_ids(srv, a))
      [] kind = "type" -> _resolve_type_ids(srv, a)
      [] kind = "instance" -> _resolve_instance_ids(srv, a)
      [] OTHER -> _resolve_property_ids(srv, a)

----------------------------------------------------------------------------
(* InternalClient.get_records *)

\* one upstream record; 0 stands for an absent "component" field
Rec(component, t, i, p, id) ==
    [component |-> component, object_type |-> t, object_instance |-> i,
     object_type_property |-> p, id |-> id]

\* comp_by_id.get(comp_id).get("name", ""): the dict comprehension keeps the
\* last listed component of an id
CompName(srv, cid) ==
    LET hits == {k \in DOMAIN srv.comps : srv.comps[k].id = cid}
    IN  IF hits = {} THEN <<>>
        ELSE srv.comps[CHOOSE k \in hits : \A j \in hits : j <= k].name

\* lines 462-465: the record with its component id and name set
Stamp(rec, srv, cid) ==
    [rec |-> rec,
     component_id |-> IF rec.component # 0 THEN rec.component ELSE cid,
     component_name |-> CompName(srv, cid)]

\* lines 456-461: an empty id set imposes nothing
Passes(rec, type_ids, instance_ids, property_ids) ==
    /\ ~(type_ids # {} /\ rec.object_type \notin type_ids)
    /\ ~(instance_ids # {} /\ rec.object_instance \notin instance_ids)
    /\ ~(property_ids # {} /\ rec.object_type_property \notin property_ids)

\* the records of one component that pass, stamped, in upstream order
KeptOf(srv, cid, type_ids, instance_ids, property_ids) ==
    LET rows == srv.records[cid]
        kept == SelectSeq(rows, LAMBDA r : Passes(r, type_ids, instance_ids, property_ids))
    IN  [k \in DOMAIN kept |-> Stamp(kept[k], srv, cid)]

RECURSIVE Collect(_, _, _, _, _, _)
\* for comp_id in comp_ids: ...
Collect(srv, comp_ids, n, type_ids, instance_ids, property_ids) ==
    IF n > Len(comp_ids) THEN <<>>
    ELSE KeptOf(srv, comp_ids[n], type_ids, instance_ids, property_ids)
         \o Collect(srv, comp_ids, n + 1, type_ids, instance_ids, property_ids)

\* the body of get_records once the four references are resolved
Filtered(srv, rc, rt, ri, rp) ==
    CASE rc.exc # NoExc -> [value |-> <<>>, exc |-> rc.exc]
      [] rt.exc # NoExc -> [value |-> <<>>, exc |-> rt.exc]
      [] ri.exc # NoExc -> [value |-> <<>>, exc |-> ri.exc]
      [] rp.exc # NoExc -> [value |-> <<>>, exc |-> rp.exc]
      [] OTHER -> [value |-> Collect(srv, rc.ids, 1, rt.ids, ri.ids, rp.ids), exc |-> NoExc]

\* InternalClient.get_records: [value, exc]
GetRecords(srv, components, object_type, instances, properties) ==
    Filtered(srv, _resolve_component_ids(srv, components), _resolve_type_ids(srv, object_type),
             _resolve_instance_ids(srv, instances), _resolve_property_ids(srv, properties))

\* a call internal.get_records(components, object_type, instances, properties)
get_records(components, object_type, instances, properties) ==
    \E r \in {GetRecords(server, components, object_type, instances, properties)} :
        /\ ret' = [fn |-> "get_records",
                   args |-> <<components, object_type, instances, properties>>,
                   value |-> r.value, exc |-> r.exc]
        /\ UNCHANGED <<ns, petexOpen, auth_token, refresh_token, env, op, resp, call,
                       server, files, tasks>>

\* a call of the resolver of one kind with one argument
resolve_ids(kind, a) ==
    \E r \in {ResolveKind(server, kind, a)} :
        /\ ret' = [fn |-> "resolve", args |-> <<kind, a>>, value |-> r.ids, exc |-> r.exc]
        /\ UNCHANGED <<ns, petexOpen, auth_token, refresh_token, env, op, resp, call,
                       server, files, tasks>>

----------------------------------------------------------------------------
(* get_records: upstream data, inputs and specification *)

Entity(id, name) == [id |-> id, name |-> name]

\* two components, two object types, three instances, two properties; the
\* second component's record carries no "component" field
ServerA ==
    [comps |-> <<Entity(1, <<"A", "b">>), Entity(2, <<"c">>)>>,
     types |-> <<Entity(1, <<"W", "e">>), Entity(2, <<"P", "i">>)>>,
     instances |-> <<Entity(1, <<"w", "a">>), Entity(2, <<"w", "b">>), Entity(3, <<"p", "a">>)>>,
     properties |-> <<Entity(1, <<"R", "a">>), Entity(2, <<"P", "r">>)>>,
     records |-> (1 :> <<Rec(1, 1, 1, 1, 11), Rec(1, 1, 2, 2, 12), Rec(1, 2, 3, 1, 13)>>
                  @@ 2 :> <<Rec(0, 2, 3, 2, 21)>>),
     history |-> <<>>]

\* the same metadata with one component listed
ServerB ==
    [comps |-> <<Entity(1, <<"A", "b">>)>>,
     types |-> <<Entity(1, <<"W", "e">>), Entity(2, <<"P", "i">>)>>,
     instances |-> <<Entity(1, <<"w", "a">>), Entity(2, <<"w", "b">>), Entity(3, <<"p", "a">>)>>,
     properties |-> <<Entity(1, <<"R", "a">>), Entity(2, <<"P", "r">>)>>,
     records |-> (1 :> <<Rec(1, 1, 1, 1, 11), Rec(1, 2, 3, 2, 13)>>),
     history |-> <<>>]

Servers == {ServerA, ServerB}

\* a name no listing holds, and an id no listing holds
UnknownName == <<"z", "z">>
StaleId == 9

\* the name of the entity of id 1 of each kind, in another letter case
OtherCase(kind) ==
    CASE kind = "component" -> <<"A", "B">>
      [] kind = "type" -> <<"w", "e">>
      [] kind = "instance" -> <<"W", "A">>
      [] OTHER -> <<"r", "a">>

\* the references to the entity of id 1 of a kind
RefsToFirst(kind) ==
    {RInt(1), RStr(<<"1">>), RStr(OtherCase(kind)), RDict(IntVal(1), NoneVal, NoneVal),
     RDict(NoneVal, StrVal(<<"1">>), NoneVal), RDict(NoneVal, NoneVal, StrVal(OtherCase(kind))),
     RObj(IntVal(1))}

\* the references that match nothing listed
RefsToNothing == {RStr(UnknownName), RInt(StaleId), RDict(NoneVal, NoneVal, StrVal(UnknownName)),
                  RDict(IntVal(StaleId), NoneVal, NoneVal), RNone}

\* the arguments a resolver is called with
ResolveArgs(kind) ==
    {ArgNone, ArgList(<<>>)}
    \cup {ArgList(<<r>>) : r \in RefsToFirst(kind) \cup RefsToNothing}
    \cup {ArgOne(r) : r \in {RInt(1), RStr(OtherCase(kind)), RDict(IntVal(1), NoneVal, NoneVal)}}
    \cup {ArgList(<<RInt(1), RStr(<<"2">>), RStr(OtherCase(kind))>>)}

CompArgs == {ArgNone, ArgList(<<RStr(OtherCase("component"))>>), ArgList(<<RStr(UnknownName)>>),
             ArgOne(RInt(1))}
TypeArgs == {ArgNone, ArgList(<<RStr(OtherCase("type"))>>), ArgList(<<RStr(UnknownName)>>),
             ArgOne(RStr(OtherCase("type"))), ArgList(<<RInt(StaleId)>>)}
InstArgs == {ArgNone, ArgList(<<RInt(1), RStr(<<"W", "B">>)>>), ArgList(<<RStr(UnknownName)>>),
             ArgOne(RStr(OtherCase("instance")))}
PropArgs == {ArgNone, ArgList(<<RDict(NoneVal, NoneVal, StrVal(OtherCase("property")))>>),
             ArgList(<<RStr(UnknownName)>>)}

InitRecords ==
    /\ env \in [petex : {FALSE}, username : {<<>>}, password : {<<>>}]
    /\ ns = GlobalContext(env)
    /\ petexOpen = {}
    /\ auth_token = Tok0
    /\ refresh_token = <<>>
    /\ op = NoOp
    /\ resp = NoResp
    /\ call = NoCall
    /\ server \in Servers
    /\ files = NoFiles
    /\ ret = NoRet
    /\ tasks = NoTasks

NextRecords ==
    \/ \E c \in CompArgs, t \in TypeArgs, i \in InstArgs, p \in PropArgs :
           get_records(c, t, i, p)
    \/ \E k \in Kinds : \E a \in ResolveArgs(k) : resolve_ids(k, a)

SpecRecords == InitRecords /\ [][NextRecords]_vars

----------------------------------------------------------------------------
(* get_records and the resolvers: properties *)

KindAt(k) == <<"component", "type", "instance", "property">>[k]

\* the call of get_records with the arguments args
CallWith(srv, args) == GetRecords(srv, args[1], args[2], args[3], args[4])

\* the k-th argument of the last get_records call is a non-empty filter of
\* which no reference resolved
UnresolvedFilter(k) ==
    /\ ret.fn = "get_records"
    /\ ret.exc = NoExc
    /\ ArgTruthy(ret.args[k])
    /\ ResolveKind(server, KindAt(k), ret.args[k]) = [ids |-> {}, exc |-> NoExc]

\* C11: a get_records call with a non-empty filter of some kind of which no
\* reference resolves does not return what the same call without that filter
\* returns, whenever the call without the filter returns any record
C11_UnresolvedFilterNeverWidens ==
    \A k \in 1..4 :
        (UnresolvedFilter(k)
         /\ CallWith(server, [ret.args EXCEPT ![k] = ArgNone]).value # <<>>)
        => ret.value # CallWith(server, [ret.args EXCEPT ![k] = ArgNone]).value

\* the last call resolved a list of references of kind k
ResolvedList(k) == ret.fn = "resolve" /\ ret.args[1] = k /\ ret.args[2].shape = "list"

\* C12: resolving a list of references raises no error, every reference to
\* a listed entity (its name in another letter case, its id, its id as a
\* numeral string, a dict or object carrying its id or name) yields that
\* entity's id, every reference matching nothing listed yields no id, and the
\* resolved set holds only ids of the listing
C12_ResolvesToListedIds ==
    \A k \in Kinds :
        ResolvedList(k) =>
            /\ ret.exc = NoExc
            /\ ret.value \subseteq ListedIds(server, k)
            /\ \A i \in DOMAIN ret.args[2].items :
                   ret.args[2].items[i] \in RefsToFirst(k) => 1 \in ret.value
            /\ (\A i \in DOMAIN ret.args[2].items : ret.args[2].items[i] \in RefsToNothing)
                   => ret.value = {}

\* a filter argument that was supplied admits the value v only when v is
\* among the ids it resolved to; an absent one admits every value
Admits(kind, a, v) ==
    a.shape = "none" \/ v \in ResolveKind(server, kind, a).ids

\* the upstream records of component cid that every supplied filter admits
Matching(cid, args) ==
    SelectSeq(server.records[cid],
              LAMBDA r : /\ Admits("type", args[2], r.object_type)
                         /\ Admits("instance", args[3], r.object_instance)
                         /\ Admits("property", args[4], r.object_type_property))

RECURSIVE Expected(_, _, _)
\* the matching records of the components cids[n..], each with its
\* component's id and name
Expected(cids, n, args) ==
    IF n > Len(cids) THEN <<>>
    ELSE [k \in DOMAIN Matching(cids[n], args) |->
             [rec |-> Matching(cids[n], args)[k], component_id |-> cids[n],
              component_name |-> CompName(server, cids[n])]]
         \o Expected(cids, n + 1, args)

\* C14: a get_records call that returns gives, for the resolved component
\* ids, exactly the upstream records whose type, instance and property each
\* belong to the resolved set of every filter kind that was supplied, each
\* with its component's id and name
C14_ExactlyTheMatchingRecords ==
    (ret.fn = "get_records" /\ ret.exc = NoExc)
    => ret.value = Expected(_resolve_component_ids(server, ret.args[1]).ids, 1, ret.args)

\* C20: for each of the four kinds, a resolver given one reference that is
\* not wrapped in a collection returns what it returns for the one-element
\* list holding that reference
C20_SingleReferenceAsOneElementList ==
    (ret.fn = "resolve" /\ ret.args[2].shape = "one")
    => [ids |-> ret.value, exc |-> ret.exc]
           = ResolveKind(server, ret.args[1], ArgList(ret.args[2].items))

----------------------------------------------------------------------------
(* InternalClient.get_history.  A timestamp is written here as the hour of *)
(* one fixed day followed by its zone: "05" (no zone), "05Z", "05+02",     *)
(* "05-01"; the date and the minutes, the same in every timestamp, are     *)
(* left out.  Times are hours on the UTC axis.                             *)

NoDt == [ok |-> FALSE, hour |-> 0, aware |-> FALSE, offset |-> 0]

\* s.endswith("Z")
EndsWithZ(s) == Len(s) > 0 /\ s[Len(s)] = "Z"

\* s[:-1] + "+00:00"
ReplaceZ(s) == SubSeq(s, 1, Len(s) - 1) \o <<"+", "0", "0">>

\* datetime.fromisoformat(s): a naive datetime, an aware one, or ValueError
FromIsoFormat(s) ==
    CASE Len(s) = 2 /\ IsDigits(s) ->
             [ok |-> TRUE, hour |-> ParseNat(s), aware |-> FALSE, offset |-> 0]
      [] Len(s) = 5 /\ IsDigits(SubSeq(s, 1, 2)) /\ s[3] \in {"+", "-"}
                    /\ IsDigits(SubSeq(s, 4, 5)) ->
             [ok |-> TRUE, hour |-> ParseNat(SubSeq(s, 1, 2)), aware |-> TRUE,
              offset |-> IF s[3] = "+" THEN ParseNat(SubSeq(s, 4, 5))
                         ELSE 0 - ParseNat(SubSeq(s, 4, 5))]
      [] OTHER -> NoDt

\* dt.replace(tzinfo=timezone.utc) of a naive datetime
AsUtc(dt) == IF dt.ok /\ ~dt.aware THEN [dt EXCEPT !.aware = TRUE, !.offset = 0] ELSE dt

\* InternalClient._parse_dt of a str or None: an aware datetime, or None
_parse_dt(value) ==
    IF ~Truthy(value) THEN NoDt
    ELSE IF EndsWithZ(Str(value)) THEN AsUtc(FromIsoFormat(ReplaceZ(Str(value))))
    ELSE AsUtc(FromIsoFormat(Str(value)))

\* the instant of an aware datetime
Instant(dt) == dt.hour - dt.offset

\* dt < bound and dt > bound of aware datetimes
Before(dt, bound) == Instant(dt) < Instant(bound)
After(dt, bound) == Instant(dt) > Instant(bound)

\* the window test with the end bound left out
SkippedStartOnly(dt, start_dt, end_dt) == start_dt.ok /\ dt.ok /\ Before(dt, start_dt)

\* lines 485-488: the entry is skipped
Skipped(dt, start_dt, end_dt) ==
    \/ start_dt.ok /\ dt.ok /\ Before(dt, start_dt)
    \/ end_dt.ok /\ dt.ok /\ After(dt, end_dt)

\* type_map.get(id, ""): the comprehension keeps the last entity of an id
NameOfId(list, id) ==
    LET hits == {k \in DOMAIN list : list[k].id = id}
    IN  IF hits = {} THEN <<>> ELSE list[CHOOSE k \in hits : \A j \in hits : j <= k].name

\* lines 489-496: the history entry with the ids and names of its record
Decorate(item, rec, srv) ==
    [time |-> item.time, value |-> item.value,
     component_id |-> IF rec.rec.component # 0 THEN rec.rec.component ELSE rec.component_id,
     main_record_id |-> rec.rec.id,
     object_type_name |-> NameOfId(srv.types, rec.rec.object_type),
     object_instance_name |-> NameOfId(srv.instances, rec.rec.object_instance),
     object_type_property_name |-> NameOfId(srv.properties, rec.rec.object_type_property)]

\* the entries of one record that are kept, decorated, in upstream order
HistoryOf(srv, rec, start_dt, end_dt) ==
    IF rec.rec.id = 0 THEN <<>>
    ELSE LET kept == SelectSeq(srv.history[rec.rec.id],
                               LAMBDA it : ~Skipped(_parse_dt(it.time), start_dt, end_dt))
         IN  [k \in DOMAIN kept |-> Decorate(kept[k], rec, srv)]

RECURSIVE HistoryLoop(_, _, _, _, _)
\* for rec in records: ...
HistoryLoop(srv, records, n, start_dt, end_dt) ==
    IF n > Len(records) THEN <<>>
    ELSE HistoryOf(srv, records[n], start_dt, end_dt)
         \o HistoryLoop(srv, records, n + 1, start_dt, end_dt)

\* get_history after its get_records call returned r
HistoryFrom(srv, r, start, end) ==
    IF r.exc # NoExc THEN r
    ELSE [value |-> HistoryLoop(srv, r.value, 1, _parse_dt(start), _parse_dt(end)),
          exc |-> NoExc]

\* InternalClient.get_history: [value, exc]
GetHistory(srv, components, object_type, instances, properties, start, end) ==
    HistoryFrom(srv, GetRecords(srv, components, object_type, instances, properties),
                start, end)

\* a call internal.get_history(...)
get_history(components, object_type, instances, properties, start, end) ==
    \E r \in {GetHistory(server, components, object_type, instances, properties,
                         start, end)} :
        /\ ret' = [fn |-> "get_history",
                   args |-> <<components, object_type, instances, properties, start, end>>,
                   value |-> r.value, exc |-> r.exc]
        /\ UNCHANGED <<ns, petexOpen, auth_token, refresh_token, env, op, resp, call,
                       server, files, tasks>>

----------------------------------------------------------------------------
(* get_history: upstream data, inputs and specification *)

Item(time, value) == [time |-> time, value |-> value]

\* the histories of the rows: zone-less, "Z" and offset timestamps, one
\* that does not parse and one that is missing
HistoryA ==
    11 :> <<Item(StrVal(<<"0", "2">>), 1), Item(StrVal(<<"0", "4", "Z">>), 2),
            Item(StrVal(<<"x">>), 3)>>
    @@ 12 :> <<Item(StrVal(<<"0", "6", "+", "0", "2">>), 4),
               Item(StrVal(<<"0", "8", "-", "0", "1">>), 5)>>
    @@ 13 :> <<Item(NoneVal, 6), Item(StrVal(<<"0", "5">>), 7)>>
    @@ 21 :> <<Item(StrVal(<<"0", "7", "+", "0", "5">>), 8),
               Item(StrVal(<<"0", "3", "-", "0", "3">>), 9)>>

HistoryServers == {[ServerA EXCEPT !.history = HistoryA], [ServerB EXCEPT !.history = HistoryA]}

\* the values start and end are given
WindowBounds ==
    {NoneVal, StrVal(<<"0", "3">>), StrVal(<<"0", "5", "Z">>),
     StrVal(<<"0", "7", "+", "0", "2">>), StrVal(<<"0", "4", "-", "0", "2">>), StrVal(<<"x">>)}

HistoryTypeArgs == {ArgNone, ArgList(<<RStr(OtherCase("type"))>>)}
HistoryInstArgs == {ArgNone, ArgList(<<RInt(1), RInt(3)>>)}

InitHistory ==
    /\ env \in [petex : {FALSE}, username : {<<>>}, password : {<<>>}]
    /\ ns = GlobalContext(env)
    /\ petexOpen = {}
    /\ auth_token = Tok0
    /\ refresh_token = <<>>
    /\ op = NoOp
    /\ resp = NoResp
    /\ call = NoCall
    /\ server \in HistoryServers
    /\ files = NoFiles
    /\ ret = NoRet
    /\ tasks = NoTasks

NextHistory ==
    \E t \in HistoryTypeArgs, i \in HistoryInstArgs, start \in WindowBounds,
       end \in WindowBounds :
        get_history(ArgNone, t, i, ArgNone, start, end)

SpecHistory == InitHistory /\ [][NextHistory]_vars

----------------------------------------------------------------------------
(* get_history: properties *)

\* the text of a timestamp value; None has none
TimeText(v) == IF v.t = "str" THEN v.s ELSE <<>>

HasZone(s) == Len(s) = 5 /\ s[3] \in {"+", "-"} /\ IsDigits(SubSeq(s, 4, 5))

\* the timestamp parses: an hour, alone, with a trailing "Z", or with an offset
Parses(v) ==
    LET s == TimeText(v)
    IN  /\ Len(s) \in {2, 3, 5}
        /\ IsDigits(SubSeq(s, 1, 2))
        /\ Len(s) = 3 => s[3] = "Z"
        /\ Len(s) = 5 => HasZone(s)

\* the UTC time a timestamp that parses denotes: zone-less and "Z" are UTC,
\* a time at offset +h is h hours earlier in UTC
UtcHour(v) ==
    LET s == TimeText(v)
    IN  IF Len(s) = 5
        THEN IF s[3] = "+" THEN ParseNat(SubSeq(s, 1, 2)) - ParseNat(SubSeq(s, 4, 5))
             ELSE ParseNat(SubSeq(s, 1, 2)) + ParseNat(SubSeq(s, 4, 5))
        ELSE ParseNat(SubSeq(s, 1, 2))

\* the last call was get_history with a start and an end that both parse
WindowCall ==
    /\ ret.fn = "get_history"
    /\ ret.exc = NoExc
    /\ Parses(ret.args[5])
    /\ Parses(ret.args[6])

\* C13: get_history called with a start and an end that both parse returns
\* no entry whose timestamp parses to a time before start or after end, with
\* zone-less timestamps and bounds read as UTC and a trailing "Z" as UTC
C13_HistoryWithinWindow ==
    WindowCall =>
        \A k \in DOMAIN ret.value :
            Parses(ret.value[k].time) =>
                /\ UtcHour(ret.args[5]) <= UtcHour(ret.value[k].time)
                /\ UtcHour(ret.value[k].time) <= UtcHour(ret.args[6])

\* a window call that kept an entry written with an offset and dropped others
C13_Witness ==
    /\ WindowCall
    /\ \E k \in DOMAIN ret.value : HasZone(TimeText(ret.value[k].time))
    /\ \E k \in DOMAIN ret.value : ~Parses(ret.value[k].time)
    /\ Len(ret.value) < Len(GetHistory(server, ret.args[1], ret.args[2], ret.args[3],
                                       ret.args[4], NoneVal, NoneVal).value)

\* the entries of a history whose timestamp is missing or does not parse
Unparsed(entries) == SelectSeq(entries, LAMBDA it : ~Parses(it.time))

\* C21: a get_history call returns every entry with a missing or unparseable
\* timestamp when neither start nor end is given, and none of them when a
\* start or an end that parses is given
C21_UnparsedKeptOnlyWithoutBound ==
    (ret.fn = "get_history" /\ ret.exc = NoExc) =>
        IF Parses(ret.args[5]) \/ Parses(ret.args[6])
        THEN Unparsed(ret.value) = <<>>
        ELSE (ret.args[5] = NoneVal /\ ret.args[6] = NoneVal) =>
                 Unparsed(ret.value)
                     = Unparsed(GetHistory(server, ret.args[1], ret.args[2], ret.args[3],
                                           ret.args[4], NoneVal, NoneVal).value)

----------------------------------------------------------------------------
(* Remote module resolver: RemoteModuleFinder on sys.meta_path *)

\* "petex_client", "pi_client", "apiapp"
PETEX == <<"p", "e", "t", "e", "x", "_", "c", "l", "i", "e", "n", "t">>
PI == <<"p", "i", "_", "c", "l", "i", "e", "n", "t">>
API == <<"a", "p", "i", "a", "p", "p">>

\* the prefixes find_spec tests the full module name against
RemotePrefixes == {PETEX, PI, API}

\* fullname.startswith(("petex_client", "pi_client", "apiapp"))
StartsWithAny(s, prefixes) == \E p \in prefixes : StartsWith(s, p)

\* RemoteModuleFinder.find_spec: a spec with a RemoteModuleLoader, or None
find_spec(fullname) ==
    IF StartsWithAny(fullname, RemotePrefixes)
    THEN [found |-> TRUE, loader |-> fullname]
    ELSE [found |-> FALSE, loader |-> <<>>]

\* the finders of sys.meta_path that this module put there
MetaPath(e) == IF e.disable_remote_imports THEN <<>> ELSE <<"RemoteModuleFinder">>

\* the import system locating a module: the finders are asked in order
locate_module(fullname) ==
    /\ ret' = [fn |-> "find_spec", args |-> <<fullname>>,
               value |-> IF Len(MetaPath(env)) > 0 THEN find_spec(fullname)
                         ELSE [found |-> FALSE, loader |-> <<>>],
               exc |-> NoExc]
    /\ UNCHANGED <<ns, petexOpen, auth_token, refresh_token, env, op, resp, call,
                   server, files, tasks>>

\* first segments of module names: the three remote roots, names that
\* extend a root, names that a root extends, and unrelated names
FirstSegments ==
    RemotePrefixes
    \cup {p \o <<"x">> : p \in RemotePrefixes}
    \cup {p \o <<"_", "v", "2">> : p \in RemotePrefixes}
    \cup {SubSeq(p, 1, Len(p) - 1) : p \in RemotePrefixes}
    \cup {<<"o", "s">>, <<"j", "s", "o", "n">>, <<"p", "i">>}

\* what follows the first segment
Tails == {<<>>, <<".", "g", "a", "p">>, <<".", "d", "o", "m", "a", "i", "n", "s">>,
          <<".", "a", ".", "b">>, <<".", "p", "i", "_", "c", "l", "i", "e", "n", "t">>}

ModuleNames == {f \o t : f \in FirstSegments, t \in Tails}

InitImport ==
    /\ env \in [petex : {FALSE}, username : {<<>>}, password : {<<>>},
                disable_remote_imports : BOOLEAN]
    /\ ns = GlobalContext(env)
    /\ petexOpen = {}
    /\ auth_token = Tok0
    /\ refresh_token = <<>>
    /\ op = NoOp
    /\ resp = NoResp
    /\ call = NoCall
    /\ server = NoServer
    /\ files = NoFiles
    /\ ret = NoRet
    /\ tasks = NoTasks

NextImport == \E m \in ModuleNames : locate_module(m)

SpecImport == InitImport /\ [][NextImport]_vars

RECURSIVE FirstSegment(_)
\* the part of a dotted name before its first dot
FirstSegment(s) ==
    IF Len(s) = 0 \/ s[1] = "." THEN <<>>
    ELSE <<s[1]>> \o FirstSegment(Tail(s))

\* C15: the remote finder intercepts a module name exactly when remote
\* resolution is enabled and the name's first dotted segment is petex_client,
\* pi_client or apiapp
C15_InterceptsOnlyAllowListed ==
    ret.fn = "find_spec" =>
        (ret.value.found <=> (~env.disable_remote_imports
                              /\ FirstSegment(ret.args[1]) \in RemotePrefixes))

----------------------------------------------------------------------------
(* Remote module loader: RemoteModuleLoader.get_data *)

\* MAIN_SERVER_MODULE_URL with the default main server: "http://btlweb:8000/api/module"
MAIN_SERVER_MODULE_URL ==
    <<"h", "t", "t", "p", ":", "/", "/", "b", "t", "l", "w", "e", "b", ":", "8", "0", "0", "0", "/", "a", "p", "i", "/", "m", "o", "d", "u", "l", "e">>

\* "/__init__.py"
InitSuffix == <<"/", "_", "_", "i", "n", "i", "t", "_", "_", ".", "p", "y">>

\* "Failed to fetch: "
FailedToFetch == <<"F", "a", "i", "l", "e", "d", " ", "t", "o", " ", "f", "e", "t", "c", "h", ":", " ">>

\* s.replace(a, b) for one-character a and b
Replace(s, a, b) == [k \in DOMAIN s |-> IF s[k] = a THEN b ELSE s[k]]

\* c in s
Contains(s, c) == \E k \in DOMAIN s : s[k] = c

\* s.split(sep)[-1]: what follows the last sep, all of s when it has none
LastPiece(s, sep) ==
    LET at == {k \in DOMAIN s : s[k] = sep}
    IN  IF at = {} THEN s
        ELSE SubSeq(s, (CHOOSE k \in at : \A j \in at : j <= k) + 1, Len(s))

\* line 78: resp.status_code == 404 and "/" not in module_path.split("/")[-1]
RetriesAsPackage(status, module_path) ==
    status = 404 /\ ~Contains(LastPiece(module_path, "/"), "/")

\* f"Failed to fetch: {url} ({resp.status_code})"
FetchError(url, status) ==
    FailedToFetch \o url \o <<" ", "(">> \o Digits(status) \o <<")">>

\* RemoteModuleLoader.get_data(path) when the upstream answers the k-th GET
\* with answers[k]: the URLs requested, the bytes returned or the error
GetData(path, answers) ==
    LET module_path == Replace(path, ".", "/")
        url1 == MAIN_SERVER_MODULE_URL \o <<"/">> \o module_path
        url2 == url1 \o InitSuffix
        again == RetriesAsPackage(answers[1].status, module_path)
        url == IF again THEN url2 ELSE url1
        last == IF again THEN answers[2] ELSE answers[1]
    IN  [urls |-> IF again THEN <<url1, url2>> ELSE <<url1>>,
         value |-> IF last.status = 200 THEN last.text ELSE <<>>,
         exc |-> IF last.status = 200 THEN NoExc ELSE Exc("ImportError", "Failed to fetch"),
         text |-> IF last.status = 200 THEN <<>> ELSE FetchError(url, last.status)]

\* the import system reading the source of a module through the loader
get_data(path, answers) ==
    \E r \in {GetData(path, answers)} :
        /\ ret' = [fn |-> "get_data", args |-> <<path, answers>>, urls |-> r.urls,
                   value |-> r.value, exc |-> r.exc, text |-> r.text]
        /\ UNCHANGED <<ns, petexOpen, auth_token, refresh_token, env, op, resp, call,
                       server, files, tasks>>

\* get_filename(fullname) is fullname: the paths are dotted module names
LoaderPaths ==
    {PETEX, PI, API, API \o <<".", "d", "o", "m", "a", "i", "n", "s">>,
     API \o <<".", "d", "o", "m", "a", "i", "n", "s", ".", "d", "a", "t", "a">>,
     PETEX \o <<".", "g", "a", "p">>, PI \o <<".", "a", ".", "b">>}

\* what the upstream answers the first and the second GET
LoaderStatuses == {200, 404, 403, 500}

LoaderAnswers ==
    {<<[status |-> a, text |-> <<"m">>], [status |-> b, text |-> <<"p">>]>> :
        a \in LoaderStatuses, b \in LoaderStatuses}

NextLoader == \E p \in LoaderPaths, a \in LoaderAnswers : get_data(p, a)

SpecLoader == InitImport /\ [][NextLoader]_vars

\* s ends with t
EndsWith(s, t) == Len(s) >= Len(t) /\ SubSeq(s, Len(s) - Len(t) + 1, Len(s)) = t

\* C22: get_data requests the module's URL and then at most one more, the
\* same URL with "/__init__.py" appended, and that only when the first answer
\* was 404 and the module path has a single segment; when the last answer is
\* not 200 it raises an ImportError whose text ends with the last URL
\* requested and the status
C22_PackageRetryOnlyForTopLevel ==
    ret.fn = "get_data" =>
        /\ Len(ret.urls) \in {1, 2}
        /\ Len(ret.urls) = 2 =>
               /\ ret.urls[2] = ret.urls[1] \o InitSuffix
               /\ ret.args[2][1].status = 404
               /\ ~Contains(ret.args[1], ".")
        /\ ret.args[2][Len(ret.urls)].status # 200 =>
               /\ ret.exc.kind = "ImportError"
               /\ EndsWith(ret.text, ret.urls[Len(ret.urls)] \o <<" ", "(">>
                                     \o Digits(ret.args[2][Len(ret.urls)].status) \o <<")">>)

----------------------------------------------------------------------------
(* Local workflow output persistence.  A file is its text, a sequence of   *)
(* characters; files maps the workflow ids that have a file to its text.   *)

\* most records a workflow's file holds
MaxFileRecords == 3

NL == "\n"

RECURSIVE JsonEscape(_)
\* the body of a JSON string: quote, backslash and newline are escaped
JsonEscape(s) ==
    IF Len(s) = 0 THEN <<>>
    ELSE (CASE s[1] = NL -> <<"\\", "n">>
            [] s[1] = "\"" -> <<"\\", "\"">>
            [] s[1] = "\\" -> <<"\\", "\\">>
            [] OTHER -> <<s[1]>>)
         \o JsonEscape(Tail(s))

\* json.dumps(item, ensure_ascii=False) of an int, a str or None
JsonDumps(v) ==
    CASE v.t = "int" -> Digits(v.n)
      [] v.t = "str" -> <<"\"">> \o JsonEscape(v.s) \o <<"\"">>
      [] OTHER -> <<"n", "u", "l", "l">>

RECURSIVE JsonUnescape(_)
\* the text of a JSON string body: [ok, s]
JsonUnescape(s) ==
    IF Len(s) = 0 THEN [ok |-> TRUE, s |-> <<>>]
    ELSE IF s[1] = "\"" \/ s[1] = NL THEN [ok |-> FALSE, s |-> <<>>]
    ELSE IF s[1] = "\\"
         THEN IF Len(s) < 2 \/ s[2] \notin {"n", "\"", "\\"} THEN [ok |-> FALSE, s |-> <<>>]
              ELSE [ok |-> JsonUnescape(SubSeq(s, 3, Len(s))).ok,
                    s |-> <<IF s[2] = "n" THEN NL ELSE s[2]>>
                          \o JsonUnescape(SubSeq(s, 3, Len(s))).s]
    ELSE [ok |-> JsonUnescape(Tail(s)).ok, s |-> <<s[1]>> \o JsonUnescape(Tail(s)).s]

\* json.loads(line): [ok, v]; ok is FALSE where it raises
JsonLoads(s) ==
    CASE IsDigits(s) -> [ok |-> TRUE, v |-> IntVal(ParseNat(s))]
      [] s = <<"n", "u", "l", "l">> -> [ok |-> TRUE, v |-> NoneVal]
      [] Len(s) >= 2 /\ s[1] = "\"" /\ s[Len(s)] = "\"" ->
             [ok |-> JsonUnescape(SubSeq(s, 2, Len(s) - 1)).ok,
              v |-> StrVal(JsonUnescape(SubSeq(s, 2, Len(s) - 1)).s)]
      [] OTHER -> [ok |-> FALSE, v |-> NoneVal]

RECURSIVE Lines(_, _)
\* for line in f: the lines of a text without their terminators; cur is
\* the line being read
Lines(text, cur) ==
    IF Len(text) = 0 THEN IF Len(cur) = 0 THEN <<>> ELSE <<cur>>
    ELSE IF text[1] = NL THEN <<cur>> \o Lines(Tail(text), <<>>)
    ELSE Lines(Tail(text), Append(cur, text[1]))

RECURSIVE LoadLines(_)
\* lines 756-763: blank and malformed lines are skipped
LoadLines(ls) ==
    IF Len(ls) = 0 THEN <<>>
    ELSE IF Len(Strip(ls[1])) = 0 \/ ~JsonLoads(Strip(ls[1])).ok THEN LoadLines(Tail(ls))
    ELSE <<JsonLoads(Strip(ls[1])).v>> \o LoadLines(Tail(ls))

\* the records GET /workflow_outputs/ reads from a file's text
ReadRecords(text) == LoadLines(Lines(text, <<>>))

RECURSIVE DumpLines(_)
\* "".join(json.dumps(item, ensure_ascii=False) + "\n" for item in items)
DumpLines(items) ==
    IF Len(items) = 0 THEN <<>>
    ELSE JsonDumps(items[1]) \o <<NL>> \o DumpLines(Tail(items))

\* records if isinstance(records, list) else [records]
ItemsOf(records) == IF records.list THEN records.items ELSE <<records.items[1]>>

\* str(_workflow_output_path(...)): the file name under the output directory
PathText(w) == <<"w", "o", "r", "k", "f", "l", "o", "w", "_">> \o Digits(w)
               \o <<".", "j", "s", "o", "n", "l">>

HasFile(fs, w) == w \in DOMAIN fs

\* the text of a workflow's file, empty when there is none
FileText(fs, w) == IF HasFile(fs, w) THEN fs[w] ELSE <<>>

\* path.write_text(text) / f.write(text) on a file opened for append
WriteFile(fs, w, text) == [x \in DOMAIN fs \cup {w} |-> IF x = w THEN text ELSE fs[x]]

\* what a local save leaves: the files, the namespace, the value returned
\* or the exception raised
Saved(fs, m, w, items, text) ==
    [files |-> WriteFile(fs, w, text),
     ns |-> Put(Put(m, "workflow_last_output_path", StrVal(PathText(w))),
                "workflow_last_output_count", IntVal(Len(items))),
     value |-> [status |-> "saved_local", path |-> PathText(w), count |-> Len(items)],
     exc |-> NoExc]

NotSaved(fs, m, exc) == [files |-> fs, ns |-> m, value |-> <<>>, exc |-> exc]

\* a local save that appends whatever the mode
SaveLocalAlwaysAppends(fs, m, w, records, mode) ==
    IF mode \notin {"append", "replace"}
    THEN NotSaved(fs, m, Exc("ValueError", "mode must be 'append' or 'replace'"))
    ELSE Saved(fs, m, w, ItemsOf(records), FileText(fs, w) \o DumpLines(ItemsOf(records)))

\* _save_workflow_output_local
_save_workflow_output_local(fs, m, w, records, mode) ==
    IF mode \notin {"append", "replace"}
    THEN NotSaved(fs, m, Exc("ValueError", "mode must be 'append' or 'replace'"))
    ELSE IF mode = "replace"
         THEN Saved(fs, m, w, ItemsOf(records), DumpLines(ItemsOf(records)))
    ELSE Saved(fs, m, w, ItemsOf(records), FileText(fs, w) \o DumpLines(ItemsOf(records)))

\* the workflow_save_output closure bound for workflow w (lines 581-589):
\* the db route names _save_workflow_output_db, which this module never
\* defines
SaveOutput(fs, m, e, w, records, mode, save_to) ==
    IF save_to = "db" \/ e.output_mode = "db"
    THEN NotSaved(fs, m, NameErrorOf("_save_workflow_output_db"))
    ELSE _save_workflow_output_local(fs, m, w, records, mode)

\* the number of records a save leaves in the file of workflow w
CountAfter(fs, w, records, mode) ==
    IF mode = "append" THEN Len(ReadRecords(FileText(fs, w))) + Len(ItemsOf(records))
    ELSE Len(ItemsOf(records))

\* a fragment's call workflow_save_output(records, mode=mode, save_to=save_to)
\* of the helper the namespace binds; save_to "" stands for None
workflow_save_output(records, mode, save_to) ==
    /\ Has(ns, "workflow_save_output")
    /\ ns["workflow_save_output"].t = "function"
    /\ CountAfter(files, ns["workflow_save_output"].n, records, mode) <= MaxFileRecords
    /\ \E r \in {SaveOutput(files, ns, env, ns["workflow_save_output"].n, records, mode,
                            save_to)} :
           /\ files' = r.files
           /\ ns' = r.ns
           /\ ret' = [fn |-> "workflow_save_output",
                      args |-> <<ns["workflow_save_output"].n, records, mode, save_to>>,
                      value |-> r.value, exc |-> r.exc,
                      before |-> FileText(files, ns["workflow_save_output"].n)]
    /\ UNCHANGED <<petexOpen, auth_token, refresh_token, env, op, resp, call, server, tasks>>

\* GET /workflow_outputs/{workflow_component_id}/
get_workflow_outputs(w) ==
    /\ ret' = [fn |-> "get_workflow_outputs", args |-> <<w>>,
               value |-> IF ~HasFile(files, w) THEN <<>> ELSE ReadRecords(files[w]),
               exc |-> NoExc]
    /\ UNCHANGED <<ns, petexOpen, auth_token, refresh_token, env, op, resp, call,
                   server, files, tasks>>

----------------------------------------------------------------------------
(* Local workflow output: inputs and specification *)

Records(list, items) == [list |-> list, items |-> items]

\* a workflow id that gets a file and one that never does
W7 == 7
W8 == 8

\* an empty list, a list of one and of two records, and a record given
\* without a list; one record is a string holding a newline
SaveRecords ==
    {Records(TRUE, <<>>), Records(TRUE, <<IntVal(1)>>),
     Records(TRUE, <<StrVal(<<"a", NL>>), NoneVal>>), Records(FALSE, <<IntVal(2)>>)}

SaveInputs ==
    {<<r, m, "">> : r \in SaveRecords, m \in {"append", "replace", "merge"}}
    \cup {<<Records(TRUE, <<IntVal(1)>>), "append", "db">>}

InitOutput ==
    /\ env \in [petex : {FALSE}, username : {<<>>}, password : {<<>>},
                output_mode : {"local", "db"}]
    /\ ns = GlobalContext(env)
    /\ petexOpen = {}
    /\ auth_token = Tok0
    /\ refresh_token = <<>>
    /\ op = NoOp
    /\ resp = NoResp
    /\ call = NoCall
    /\ server = NoServer
    /\ files = NoFiles
    /\ ret = NoRet
    /\ tasks = NoTasks

NextOutput ==
    \/ run_cell(FPass, Query(FALSE, "ok", IntVal(W7), NoHeaders))
    \/ \E i \in SaveInputs : workflow_save_output(i[1], i[2], i[3])
    \/ \E w \in {W7, W8} : get_workflow_outputs(w)

SpecOutput == InitOutput /\ [][NextOutput]_vars

----------------------------------------------------------------------------
(* Local workflow output: properties *)

\* the last call was workflow_save_output
IsSave == ret.fn = "workflow_save_output"

\* the route the last save took
DbRoute == ret.args[4] = "db" \/ env.output_mode = "db"

\* the records the last save was given, as a list
GivenItems == IF ret.args[2].list THEN ret.args[2].items ELSE <<ret.args[2].items[1]>>

\* the text of the file of the last call's workflow id
FileNow == FileText(files, ret.args[1])

\* C16: a workflow_save_output call with mode 'append' or 'replace'
\* completes without raising on either route, and on the local route the
\* file then holds the given records after those it keeps
C16_SaveOutputPersists ==
    (IsSave /\ ret.args[3] \in {"append", "replace"}) =>
        /\ ret.exc = NoExc
        /\ ~DbRoute => ReadRecords(FileNow)
                           = (IF ret.args[3] = "append" THEN ReadRecords(ret.before) ELSE <<>>)
                             \o GivenItems

\* the last call was a local save
LocalSave == IsSave /\ ~DbRoute

\* C17: after a local save with mode 'append' the file reads back as the
\* records it held before followed by the given ones, after one with mode
\* 'replace' as the given records alone, in both one JSON record per line; a
\* save with any other mode raises and leaves the file as it was; and the
\* GET handler returns the records of the file in order, none without a file
C17_ReplaceThenAppendsReadBack ==
    /\ (LocalSave /\ ret.args[3] = "append") =>
           /\ ret.exc = NoExc
           /\ ReadRecords(FileNow) = ReadRecords(ret.before) \o GivenItems
           /\ Len(Lines(FileNow, <<>>)) = Len(ReadRecords(FileNow))
    /\ (LocalSave /\ ret.args[3] = "replace") =>
           /\ ret.exc = NoExc
           /\ ReadRecords(FileNow) = GivenItems
           /\ Len(Lines(FileNow, <<>>)) = Len(GivenItems)
    /\ (LocalSave /\ ret.args[3] \notin {"append", "replace"}) =>
           /\ ret.exc.kind = "ValueError"
           /\ FileNow = ret.before
    /\ ret.fn = "get_workflow_outputs" =>
           /\ ret.value = ReadRecords(FileNow)
           /\ ~HasFile(files, ret.args[1]) => ret.value = <<>>

\* an append of two records, one a string with a newline, to a file that
\* already held a record
C17_Witness ==
    /\ LocalSave
    /\ ret.args[3] = "append"
    /\ Len(ReadRecords(ret.before)) = 1
    /\ \E k \in DOMAIN GivenItems : GivenItems[k].t = "str" /\ NL \in SeqToSet(GivenItems[k].s)
    /\ Len(ReadRecords(FileNow)) = 3

----------------------------------------------------------------------------
(* Variable management: inputs and specification *)

\* the values a set_var request carries: a numeral, a word, a JSON int, a
\* missing value, and a truth word
SetValues == {StrVal(<<"2">>), StrVal(<<"a", "b">>), IntVal(3), NoneVal,
              StrVal(<<"Y", "e", "s">>)}

SetTypes == {"int", "float", "bool", "str"}

VarNames == {"x", "y"}

NextVars ==
    \/ \E n \in VarNames, v \in SetValues, t \in SetTypes : set_var(n, v, t)
    \/ \E n \in VarNames : delete_var(n)

SpecVars == Init /\ [][NextVars]_vars

\* C18: a set_var request whose value coerces to the requested type binds
\* the name to the coerced value and leaves every other binding as it was; one
\* whose value fails the int or float coercion is answered 400 and leaves the
\* whole namespace as it was
C18_SetVarCoercesOrRejects ==
    [][op'.name = "set_var" =>
           IF Coerce(op'.value, op'.vtype).ok
           THEN /\ resp'.status = 200
                /\ DOMAIN ns' = DOMAIN ns \cup {op'.var}
                /\ ns'[op'.var] = Coerce(op'.value, op'.vtype).v
                /\ \A k \in DOMAIN ns \ {op'.var} : ns'[k] = ns[k]
           ELSE /\ op'.vtype \in {"int", "float"}
                /\ resp'.status = 400
                /\ ns' = ns]_vars

\* a float coercion that failed on a name bound by an earlier int coercion,
\* beside another user binding
C18_Witness ==
    /\ op.name = "set_var"
    /\ op.var = "x"
    /\ op.vtype = "float"
    /\ resp.status = 400
    /\ Has(ns, "x") /\ ns["x"] = IntVal(2)
    /\ Has(ns, "y") /\ ns["y"].t = "bool"

----------------------------------------------------------------------------
(* InternalClient._ensure_token on its own *)

\* a call of internal._ensure_token(), answered by the upstream as u says
ensure_token(u) ==
    \E r \in {_ensure_token([auth |-> auth_token, refresh |-> refresh_token,
                             events |-> <<>>], u, env)} :
        /\ auth_token' = r.s.auth
        /\ refresh_token' = r.s.refresh
        /\ call' = [gets |-> 0, events |-> r.s.events, exc |-> r.exc,
                    auth0 |-> auth_token, refresh0 |-> refresh_token, u |-> u]
        /\ UNCHANGED <<ns, petexOpen, env, op, resp, server, files, ret, tasks>>

\* the upstreams that differ in what the token endpoints answer
TokenUpstreams ==
    {u \in Upstreams : u.get = [i \in 1..2 |-> 200] /\ u.refresh[2] = u.refresh[1]}

NextToken == \E u \in TokenUpstreams : ensure_token(u)

SpecToken == InitClient /\ [][NextToken]_vars

\* a call was made
Called == call.u # NoUpstream

\* the refresh POST of the last call was answered with a token
RefreshGave == call.u.refresh[1].status = 200 /\ Len(call.u.refresh[1].token) > 0

\* both username and password are configured
HasLogin == Len(env.username) > 0 /\ Len(env.password) > 0

\* C19: _ensure_token with a held access token makes no upstream call and
\* keeps the token; without one, a held refresh token means exactly one
\* refresh call, made first, whose access token is adopted on success with no
\* further call; a password grant is made, once, exactly when that yielded
\* nothing and both username and password are configured, and its non-success
\* answer is raised as an error
C19_TokenPriorityOrder ==
    Called =>
        /\ Len(call.auth0) > 0 => (call.events = <<>> /\ auth_token = call.auth0
                                   /\ call.exc = NoExc)
        /\ (Len(call.auth0) = 0 /\ Len(call.refresh0) > 0) =>
               /\ Cardinality({i \in DOMAIN call.events : IsRefresh(call.events[i])}) = 1
               /\ IsRefresh(call.events[1])
               /\ RefreshGave => (Len(call.events) = 1 /\ call.exc = NoExc
                                  /\ auth_token = call.u.refresh[1].token)
        /\ (Len(call.auth0) = 0 /\ Len(call.refresh0) = 0) =>
               \A i \in DOMAIN call.events : ~IsRefresh(call.events[i])
        /\ Cardinality({i \in DOMAIN call.events : IsGrant(call.events[i])})
               = IF Len(call.auth0) = 0 /\ ~(Len(call.refresh0) > 0 /\ RefreshGave) /\ HasLogin
                 THEN 1 ELSE 0
        /\ (\E i \in DOMAIN call.events : IsGrant(call.events[i]))
               => (call.u.grant.status # 200 => (call.exc.kind = "RuntimeError"
                                                 /\ auth_token = <<>>))

\* a call without an access token whose refresh was refused and whose
\* password grant gave the token
C19_Witness ==
    /\ Called
    /\ Len(call.auth0) = 0
    /\ Len(call.events) = 2
    /\ IsRefresh(call.events[1])
    /\ IsGrant(call.events[2])
    /\ auth_token = call.u.grant.token
    /\ Len(auth_token) > 0

----------------------------------------------------------------------------
(* Concurrent run_cell / run_all requests on the one event loop.  A        *)
(* handler is a coroutine: tasks.t[r] is the position of request r in the  *)
(* handler and what it has done so far, tasks.running the request that has *)
(* the loop (0: the loop is free).  A coroutine keeps the loop until it    *)
(* reaches an await.                                                        *)

\* the positions of a handler: not yet received, at `await request.json()`,
\* before _apply_request_auth, before the with statement, in the exec loop,
\* before the snapshot, returned
IdleTask ==
    [pc |-> "idle", cells |-> <<>>, q |-> NoQuery, i |-> 1, srv |-> 0,
     tok |-> [auth |-> <<>>, refresh |-> <<>>], saw |-> <<>>, out |-> <<>>,
     exc |-> NoExc]

\* a handler that also awaited between the fragments
YieldsBetweenFragments(pc) == pc \in {"json", "exec"}

\* the handler awaits at this position: `data = await request.json()` is the
\* only await of run_cell and of run_all
Yields(pc) == pc = "json"

\* the request that has the loop once request r has moved to position pc
LoopAfter(r, pc) == IF pc = "done" \/ Yields(pc) THEN 0 ELSE r

\* request r may take its next step: it has the loop, or the loop is free
CanRun(r) == r \in DOMAIN tasks.t /\ tasks.running \in {0, r}

\* tasks after request r became task
Moved(r, task) == [running |-> LoopAfter(r, task.pc), t |-> [tasks.t EXCEPT ![r] = task]]

\* PetexServer() makes a new object each time: the handle of request r is r
EnterFor(r, q, e, open) ==
    LET en == PetexEnter(q.use_petex, e, q.ctor, open)
    IN  IF en.srv = 0 THEN en
        ELSE [srv |-> r, open |-> open \cup {r}, exc |-> NoExc]

\* the binding of 'srv' a fragment finds in the namespace, None when unbound
SrvIn(m) == IF Has(m, "srv") THEN m["srv"] ELSE NoneVal

\* a request reaches its handler, which starts to read the body
receive(r, cells, q) ==
    /\ CanRun(r)
    /\ tasks.t[r].pc = "idle"
    /\ tasks' = Moved(r, [IdleTask EXCEPT !.pc = "json", !.cells = cells, !.q = q])
    /\ UNCHANGED <<ns, petexOpen, auth_token, refresh_token, env, op, resp, call,
                   server, files, ret>>

\* data = await request.json() completes
read_body(r) ==
    /\ CanRun(r)
    /\ tasks.t[r].pc = "json"
    /\ tasks' = Moved(r, [tasks.t[r] EXCEPT !.pc = "auth"])
    /\ UNCHANGED <<ns, petexOpen, auth_token, refresh_token, env, op, resp, call,
                   server, files, ret>>

\* _apply_request_auth(request)
apply_auth(r) ==
    /\ CanRun(r)
    /\ tasks.t[r].pc = "auth"
    /\ \E tok \in {_apply_request_auth(tasks.t[r].q.hdrs,
                                       [auth |-> auth_token, refresh |-> refresh_token])} :
           /\ auth_token' = tok.auth
           /\ refresh_token' = tok.refresh
           /\ tasks' = Moved(r, [tasks.t[r] EXCEPT !.pc = "enter", !.tok = tok])
    /\ UNCHANGED <<ns, petexOpen, env, op, resp, call, server, files, ret>>

\* with _petex_server(use_petex) as srv: the bindings of 'srv' and of the
\* workflow helpers
enter_petex(r) ==
    /\ CanRun(r)
    /\ tasks.t[r].pc = "enter"
    /\ \E en \in {EnterFor(r, tasks.t[r].q, env, petexOpen)} :
           \E wf \in {BindWorkflow(tasks.t[r].q.wfid,
                                   IF en.srv # 0 THEN Put(ns, "srv", HandleVal(en.srv))
                                   ELSE ns)} :
               /\ petexOpen' = en.open
               /\ ns' = IF en.exc # NoExc THEN ns ELSE wf.ns
               /\ tasks' = Moved(r, [tasks.t[r] EXCEPT
                                        !.pc = "exec", !.srv = en.srv,
                                        !.exc = IF en.exc # NoExc THEN en.exc ELSE wf.exc])
    /\ UNCHANGED <<auth_token, refresh_token, env, op, resp, call, server, files, ret>>

\* exec(code, GLOBAL_CONTEXT) of the next fragment, which finds 'srv' and
\* the client's token as they are now
exec_cell(r) ==
    /\ CanRun(r)
    /\ tasks.t[r].pc = "exec"
    /\ tasks.t[r].exc = NoExc
    /\ tasks.t[r].i <= Len(tasks.t[r].cells)
    /\ \E st \in {ExecFragment(tasks.t[r].cells[tasks.t[r].i],
                               [ns |-> ns, out |-> tasks.t[r].out, exc |-> NoExc,
                                ran |-> 0])} :
           /\ ns' = st.ns
           /\ tasks' = Moved(r, [tasks.t[r] EXCEPT
                                    !.i = @ + 1, !.out = st.out, !.exc = st.exc,
                                    !.saw = Append(@, [srv |-> SrvIn(ns),
                                                       auth |-> auth_token,
                                                       refresh |-> refresh_token])])
    /\ UNCHANGED <<petexOpen, auth_token, refresh_token, env, op, resp, call, server,
                   files, ret>>

\* the with block is left, normally or by an exception, and the finally
\* clause pops 'srv'
leave_try(r) ==
    /\ CanRun(r)
    /\ tasks.t[r].pc = "exec"
    /\ tasks.t[r].exc # NoExc \/ tasks.t[r].i > Len(tasks.t[r].cells)
    /\ petexOpen' = IF tasks.t[r].srv # 0 THEN PetexExit(petexOpen, tasks.t[r].srv)
                    ELSE petexOpen
    /\ ns' = PopSrv(ns)
    /\ tasks' = Moved(r, [tasks.t[r] EXCEPT !.pc = "snapshot"])
    /\ UNCHANGED <<auth_token, refresh_token, env, op, resp, call, server, files, ret>>

\* vars_snapshot is built and the response returned
snapshot(r) ==
    /\ CanRun(r)
    /\ tasks.t[r].pc = "snapshot"
    /\ resp' = IF tasks.t[r].exc # NoExc /\ ~IsException(tasks.t[r].exc)
               THEN Fault(tasks.t[r].exc.kind)
               ELSE IF SnapshotRaises(ns) THEN Fault("AttributeError")
               ELSE Resp(200, tasks.t[r].out, CatchException(tasks.t[r].exc),
                         RunSnapshot(ns), "")
    /\ tasks' = Moved(r, [tasks.t[r] EXCEPT !.pc = "done"])
    /\ UNCHANGED <<ns, petexOpen, auth_token, refresh_token, env, op, call, server,
                   files, ret>>

\* the requests: with and without the resource, with either bearer token or
\* none, with fragments that complete or raise
LoopCells == {<<FPass>>, <<FAssign("x", 1, 1), FPrint("x")>>,
              <<FRaise("ValueError", "boom")>>}

LoopQueries == {Query(p, "ok", NoneVal, Headers(a, <<>>)) :
                    p \in BOOLEAN, a \in {<<>>, BearerTokA, LowerBearerTokB}}

InitLoop ==
    /\ env \in [petex : {TRUE}, username : {<<>>}, password : {<<>>}]
    /\ ns = GlobalContext(env)
    /\ petexOpen = {}
    /\ auth_token = Tok0
    /\ refresh_token = <<>>
    /\ op = NoOp
    /\ resp = NoResp
    /\ call = NoCall
    /\ server = NoServer
    /\ files = NoFiles
    /\ ret = NoRet
    /\ tasks = [running |-> 0, t |-> [r \in 1..MaxRequests |-> IdleTask]]

NextLoop ==
    \E r \in 1..MaxRequests :
        \/ \E c \in LoopCells, q \in LoopQueries : receive(r, c, q)
        \/ read_body(r)
        \/ apply_auth(r)
        \/ enter_petex(r)
        \/ exec_cell(r)
        \/ leave_try(r)
        \/ snapshot(r)

SpecLoop == InitLoop /\ [][NextLoop]_vars

\* the handle request r acquired, None when it acquired none
OwnSrv(r) == IF tasks.t[r].srv # 0 THEN HandleVal(tasks.t[r].srv) ELSE NoneVal

\* C24: whatever the interleaving of the requests in flight, at most one
\* PetexServer context is open at a time, every fragment finds 'srv' bound to
\* the handle its own request acquired (unbound when it acquired none), and
\* every fragment finds in the client the tokens its own request's
\* _apply_request_auth left there
C24_HandlerRunsWithoutInterleaving ==
    /\ Cardinality(petexOpen) <= 1
    /\ \A r \in DOMAIN tasks.t :
           \A k \in DOMAIN tasks.t[r].saw :
               /\ tasks.t[r].saw[k].srv = OwnSrv(r)
               /\ tasks.t[r].saw[k].auth = tasks.t[r].tok.auth
               /\ tasks.t[r].saw[k].refresh = tasks.t[r].tok.refresh

\* a request with the resource and one bearer token is evaluating its
\* fragments while another, with the resource and the other bearer token,
\* has been received and waits for its body
C24_Witness ==
    \E r1, r2 \in DOMAIN tasks.t :
        /\ tasks.t[r1].pc = "exec"
        /\ tasks.t[r1].saw # <<>>
        /\ tasks.t[r1].srv # 0
        /\ tasks.t[r1].q.hdrs.auth = BearerTokA
        /\ tasks.t[r2].pc = "json"
        /\ tasks.t[r2].q.use_petex
        /\ tasks.t[r2].q.hdrs.auth = LowerBearerTokB
====
